---- MODULE Spec2Model ----
(***************************************************************************)
(* Track / race-rules and turret subsystems of the drift-racing game       *)
(* (src/track.js).                                                         *)
(*                                                                         *)
(* Time is the reading of performance.now() in integer milliseconds.  A    *)
(* value in seconds (lapTimeSec, lastLap, bestLap) is kept as a fixed-     *)
(* point number of thousandths of a second, so that (ms / 1000) seconds is *)
(* the integer ms; comparisons and the test "=== 0" are unaffected.        *)
(* Glow is kept in thousandths, a force in millionths.                     *)
(***************************************************************************)
EXTENDS Integers, Sequences, FiniteSets, TLC

(* ----------------------------- bounds ---------------------------------- *)
MaxCheckpoints == 2     \* largest number of checkpoints explored
MaxClock == 1500        \* single-player runs: the clock stays within this reading
TickMs == 500           \* time that passes between two operations, when it does
MaxObstacles == 2       \* obstacleCount: obstacles of one layout
MaxTurrets == 2         \* TURRET_CONFIG.count as explored: turrets of one layout
MaxAttempts == 3        \* maxAttempts: candidates one randomizer stage may draw
MaxBuilds == 2          \* calls of buildTrack on one world
MaxAttachments == 1     \* calls of attachRaceRules after the first on one engine
MaxLoads == 1           \* calls of loadArenaFromJSON that add bodies to one world
MaxFrames == 2          \* frames drawn, or calls of updateTurrets, at one clock reading
MaxAlerts == 1          \* timers of showCheckpointAlert that wait at one time
MaxGameFrames == 3      \* twoPlayerMaxTime as explored: frames of a two-player game

(* ------------------------- program constants --------------------------- *)
StartCooldown == 1000   \* startCooldownMs[idx] = now + 1000
WallPenalty == 1000     \* penaltyUntil[idx] = now + 1000

SprayMs == 1000         \* sprayEndTime[i] = now + 1000
ParticleCount == 25     \* "for (var p = 0; p < 25; p++)"
ParticleLife == 40      \* life: 40
GlowFull == 1000        \* glowIntensity[i] = 1.0
GlowFade == 50          \* glowIntensity[i] - 0.05
BaseForce == 80000      \* 0.08 * forceScale
MinForceScale == 350    \* Math.max(0.35, ...), in thousandths
ProximityCooldown == 1000 \* checkpointCooldowns[cooldownKey] < millis() - 1000
SensorRadius == 35      \* checkpoint.circleRadius || 35
AlertCooldown == 2000   \* alertCooldowns[alertKey] < millis() - 2000
AlertDelay == 50        \* setTimeout(..., 50)

\* TURRET_CONFIG
TURRET_CONFIG ==
  [ count |-> 8, triggerRadius |-> 450, forceRadius |-> 1100,
    sprayRadius |-> 120, minSpacing |-> 750, margin |-> 80 ]

CheckpointCounts == {1, MaxCheckpoints}
ClockDrifts == {0, 1}   \* ms that pass between the two clock reads of a handler run

(* Default checkpoint table; buildTrack makes one sensor per entry. *)
DefaultCheckpoints ==
  << [x |-> 2100, y |-> 1500, r |-> 35], [x |-> 2500, y |-> 1200, r |-> 35],
     [x |-> 2000, y |-> 600, r |-> 35],  [x |-> 1000, y |-> 300, r |-> 35],
     [x |-> 400, y |-> 1000, r |-> 35],  [x |-> 1100, y |-> 1600, r |-> 35] >>

VARIABLES
  clock,                \* performance.now()
  carBodies,            \* labels of the car bodies given to attachRaceRules
  CHECKPOINTS,          \* the checkpoint list in effect
  passedCheckpoint,     \* per car: legacy "touched a checkpoint this lap" flag
  nextCheckpointIndex,  \* per car: next expected checkpoint
  startCooldownMs,      \* per car: start line ignored before this time
  penaltyUntil,         \* per car: penalized before this time
  lapState,             \* [lapCount, lastLap, bestLap, lapStartMs], per car
  turretData,           \* TURRETS: the turret placement data of the arena
  turretState,          \* [activeSprays, sprayEndTime, particles, carsInTrigger,
                        \*  glowIntensity], per turret
  CURVED_BARRIERS,      \* the obstacle list in effect
  TURRETS,              \* the turret list in effect
  world,                \* bodies of the physics world (World.add)
  gen,                  \* buildTrack in progress: [stage, acc, attempts, builds]
  attachments,          \* race state of the collisionStart handlers that earlier
                        \*  calls of attachRaceRules left on the engine, oldest first
  calls,                \* callbacks invoked by the most recent operation
  evt,                  \* the most recent operation and its inputs
  callbacks,            \* the callbacks given to attachRaceRules: "sketch", the
                        \*  functions of sketch.js, or "recorded", callbacks
                        \*  that do nothing but record the call
  gameState,            \* sketch.js: "menu", "playing", "paused", "gameOver"
  gameMode,             \* sketch.js: "single" or "two-player"
  twoPlayerTimer,       \* sketch.js: frames left of a two-player game
  checkpointCooldowns,  \* sketch.js: time of the last activation, by
                        \*  << carIndex, checkpointIndex >>
  showCheckpointAlerts, \* sketch.js: the toggle of key L
  alertCooldowns,       \* sketch.js: time of the last alert, by the same key
  alertTimers,          \* the timers showCheckpointAlert has set and that have
                        \*  not run yet: the time each is due, oldest first
  attached,             \* attachRaceRules was called on this engine
  frames,               \* frames drawn, or calls of updateTurrets, since the
                        \*  clock last advanced
  mathHypot,            \* how Math.hypot of this engine rounds a whole
                        \*  hypotenuse: -1, 0 or 1 unit of length, by offset
  hist                  \* history of each car (observation only)

vars == << clock, carBodies, CHECKPOINTS, passedCheckpoint, nextCheckpointIndex,
           startCooldownMs, penaltyUntil, lapState, turretData, turretState,
           CURVED_BARRIERS, TURRETS, world, gen, attachments, calls, evt, callbacks,
           gameState, gameMode, twoPlayerTimer, checkpointCooldowns,
           showCheckpointAlerts, alertCooldowns, alertTimers, attached, frames,
           mathHypot, hist >>

\* What only buildTrack writes.
layout == << CURVED_BARRIERS, TURRETS, world, gen >>

\* What track.js does not touch.
sketch == << callbacks, gameState, gameMode, twoPlayerTimer, checkpointCooldowns,
             showCheckpointAlerts, alertCooldowns, alertTimers >>

(* ------------------------------ labels --------------------------------- *)
\* A body label is [tag, n]: "CHECK_" + ci is [tag |-> "CHECK_", n |-> ci],
\* "CAR" + index is [tag |-> "CAR", n |-> index]; n is -1 for plain labels.
Label(tag, n) == [tag |-> tag, n |-> n]
CarLabel(index) == Label("CAR", index)
CheckLabel(ci) == Label("CHECK_", ci)
StartLabel == Label("START", -1)
WallLabel == Label("WALL", -1)
BoostLabel == Label("BOOST_PAD", -1)
GripLabel == Label("GRIP_PAD", -1)

\* A label that is no string: body.label left undefined, or set to a number.
JsUndefined == [js |-> "undefined"]
JsNumber(v) == [js |-> "number", v |-> v]

\* A string label "CHECK_" + text whose text does not start with a number
\* ("CHECK_abc"), and one whose text is a number followed by more text
\* ("CHECK_0x" is CheckLabelThen(0, "x")).
CheckLabelText(text) == [tag |-> "CHECK_", rest |-> text]
CheckLabelThen(ci, text) == [tag |-> "CHECK_", n |-> ci, rest |-> text]

\* typeof label === "string", and the truth value "otherLabel && ..." tests.
IsString(label) == "tag" \in DOMAIN label
Truthy(label) ==
  IF IsString(label) THEN label.tag # ""
  ELSE label.js = "number" /\ label.v # 0

\* parseInt of a text that does not start with a number is NaN, which is
\* === to no index; it is written as an integer that is no index either.
NaN == -1

\* parseInt(otherLabel.split("_")[1], 10): the number the text starts with;
\* what follows the number is not read.
ParseCheckIndex(label) == IF "n" \in DOMAIN label THEN label.n ELSE NaN

\* Car indices are 0-based as in the source; carBodies[idx] is Body(idx).
Cars == 0 .. (Len(carBodies) - 1)
Body(idx) == carBodies[idx + 1]

Max(a, b) == IF a >= b THEN a ELSE b
Min(a, b) == IF a <= b THEN a ELSE b

(* --------------------------- lap timing -------------------------------- *)
\* A JavaScript array is a function from its indexes.  "arr[index] = v" with an
\* index the array does not have adds the index instead of failing, and
\* "arr[index]" of such an index reads undefined.
SetAt(arr, index, v) == [k \in DOMAIN arr \cup {index} |-> IF k = index THEN v ELSE arr[k]]
Undefined == [undefined |-> TRUE]
GetAt(arr, index) == IF index \in DOMAIN arr THEN arr[index] ELSE Undefined

createLapState_(carsCount, now) ==
  [ lapCount |-> [i \in 0 .. (carsCount - 1) |-> 0],
    lastLap |-> [i \in 0 .. (carsCount - 1) |-> 0],
    bestLap |-> [i \in 0 .. (carsCount - 1) |-> 0],
    lapStartMs |-> [i \in 0 .. (carsCount - 1) |-> now] ]

\* Result of completeLap_ when its own clock read returns now.
completeLap_(ls, index, now) ==
  LET lapTimeSec == now - ls.lapStartMs[index]
      newBest == IF ls.bestLap[index] = 0 \/ lapTimeSec < ls.bestLap[index]
                 THEN lapTimeSec ELSE ls.bestLap[index]
  IN [ state |-> [ lapCount |-> [ls.lapCount EXCEPT ![index] = @ + 1],
                   lastLap |-> [ls.lastLap EXCEPT ![index] = lapTimeSec],
                   bestLap |-> [ls.bestLap EXCEPT ![index] = newBest],
                   lapStartMs |-> [ls.lapStartMs EXCEPT ![index] = now] ],
       lapTimeSec |-> lapTimeSec ]

\* Variant: the reset keeps the best lap and the lap start.
resetLapStateKeeping_(ls, index, now) ==
  [ lapCount |-> [ls.lapCount EXCEPT ![index] = 0],
    lastLap |-> [ls.lastLap EXCEPT ![index] = 0],
    bestLap |-> ls.bestLap,
    lapStartMs |-> ls.lapStartMs ]

resetLapState_(ls, index, now) ==
  [ lapCount |-> SetAt(ls.lapCount, index, 0),
    lastLap |-> SetAt(ls.lastLap, index, 0),
    bestLap |-> SetAt(ls.bestLap, index, 0),
    lapStartMs |-> SetAt(ls.lapStartMs, index, now) ]

(* ---------------------- collisionStart handler ------------------------- *)
\* The race state threaded through the handler's loops.
RaceState ==
  [ clock |-> clock,
    carBodies |-> carBodies,
    passedCheckpoint |-> passedCheckpoint,
    nextCheckpointIndex |-> nextCheckpointIndex,
    startCooldownMs |-> startCooldownMs,
    penaltyUntil |-> penaltyUntil,
    lapState |-> lapState,
    calls |-> << >>,
    thrown |-> FALSE ]

onPad(idx, type) == [cb |-> "onPad", car |-> idx, type |-> type]
onCheckpoint(idx, hitIndex) == [cb |-> "onCheckpoint", car |-> idx, arg |-> hitIndex]
onLap(idx, lapTimeSec) == [cb |-> "onLap", car |-> idx, arg |-> lapTimeSec]
onWallHit(idx) == [cb |-> "onWallHit", car |-> idx]

Invoke(s, call) == [s EXCEPT !.calls = Append(@, call)]

\* Variant: a checkpoint counts in any order.
CheckpointTouchAnyOrder(s, idx, hitIndex) ==
  Invoke(
    [s EXCEPT
       !.nextCheckpointIndex[idx] = (hitIndex + 1) % Max(1, Len(CHECKPOINTS)),
       !.passedCheckpoint[idx] = TRUE],
    onCheckpoint(idx, hitIndex))

\* "if (hitIndex === nextCheckpointIndex[idx]) {...} else {...}"
CheckpointTouch(s, idx, hitIndex) ==
  IF hitIndex = s.nextCheckpointIndex[idx]
  THEN Invoke(
         [s EXCEPT
            !.nextCheckpointIndex[idx] = (@ + 1) % Max(1, Len(CHECKPOINTS)),
            !.passedCheckpoint[idx] = TRUE],
         onCheckpoint(idx, hitIndex))
  ELSE s

\* Variant: the cooldown includes its end.
InCooldownInclusive(s, idx, now) == now <= s.startCooldownMs[idx]

\* "if (now < startCooldownMs[idx]) continue;"
InCooldown(s, idx, now) == now < s.startCooldownMs[idx]

\* Variant: the lap is granted on the legacy flag alone.
StartCrossOnFlag(s, idx, now, drift) ==
  LET lapNow == s.clock + drift
      lap == completeLap_(s.lapState, idx, lapNow)
  IN IF s.passedCheckpoint[idx]
     THEN Invoke(
            [s EXCEPT
               !.clock = lapNow,
               !.lapState = lap.state,
               !.passedCheckpoint[idx] = FALSE,
               !.startCooldownMs[idx] = now + StartCooldown],
            onLap(idx, lap.lapTimeSec))
     ELSE s

\* Variant: a completed lap starts no cooldown.
StartCrossNoCooldown(s, idx, now, drift) ==
  LET cps == Max(1, Len(CHECKPOINTS))
      allPassed == IF cps = 1 THEN s.passedCheckpoint[idx]
                   ELSE (s.nextCheckpointIndex[idx] = 0 /\ s.passedCheckpoint[idx])
      lapNow == s.clock + drift
      lap == completeLap_(s.lapState, idx, lapNow)
  IN IF allPassed
     THEN Invoke(
            [s EXCEPT
               !.clock = lapNow,
               !.lapState = lap.state,
               !.passedCheckpoint[idx] = FALSE],
            onLap(idx, lap.lapTimeSec))
     ELSE s

\* Start line crossed outside the cooldown: "var cps = ...; if (allPassed) {...}".
\* completeLap_ reads the clock again, drift ms after the handler did.
StartCross(s, idx, now, drift) ==
  LET cps == Max(1, Len(CHECKPOINTS))
      allPassed == IF cps = 1 THEN s.passedCheckpoint[idx]
                   ELSE (s.nextCheckpointIndex[idx] = 0 /\ s.passedCheckpoint[idx])
      lapNow == s.clock + drift
      lap == completeLap_(s.lapState, idx, lapNow)
  IN IF allPassed
     THEN Invoke(
            [s EXCEPT
               !.clock = lapNow,
               !.lapState = lap.state,
               !.passedCheckpoint[idx] = FALSE,
               !.startCooldownMs[idx] = now + StartCooldown],
            onLap(idx, lap.lapTimeSec))
     ELSE s

\* Variant: a wall hit penalizes every car.
WallHitEveryCar(s, idx, now) ==
  Invoke([s EXCEPT !.penaltyUntil = [i \in DOMAIN @ |-> now + WallPenalty]],
         onWallHit(idx))

\* Variant: a wall hit also throws the car back to checkpoint 0.
WallHitLosesProgress(s, idx, now) ==
  Invoke([s EXCEPT !.penaltyUntil[idx] = now + WallPenalty,
                   !.nextCheckpointIndex[idx] = 0,
                   !.passedCheckpoint[idx] = FALSE],
         onWallHit(idx))

\* "penaltyUntil[idx] = now + 1000; callbacks.onWallHit(idx)"
WallHit(s, idx, now) ==
  Invoke([s EXCEPT !.penaltyUntil[idx] = now + WallPenalty], onWallHit(idx))

\* Body of "for (idx ...)" for one pair and one car; now is the handler's
\* clock read.
HandleCar(s, pair, idx, now, drift) ==
  LET a == pair.bodyA
      b == pair.bodyB
      carLabel == s.carBodies[idx + 1]
      involvesThisCar == (a = carLabel \/ b = carLabel)
      carVs(l) == (a = carLabel /\ b = l) \/ (b = carLabel /\ a = l)
      s1 == IF carVs(BoostLabel) THEN Invoke(s, onPad(idx, "boost")) ELSE s
      s2 == IF carVs(GripLabel) THEN Invoke(s1, onPad(idx, "grip")) ELSE s1
      otherLabel == IF a = carLabel THEN b ELSE a
      \* "otherLabel.indexOf" of a number is undefined: calling it throws
      isString == IsString(otherLabel)
      noIndexOf == ~isString /\ Truthy(otherLabel)
      s3 == IF isString /\ Truthy(otherLabel) /\ otherLabel.tag = "CHECK_"
            THEN CheckpointTouch(s2, idx, ParseCheckIndex(otherLabel))
            ELSE s2
      s4 == IF carVs(StartLabel) THEN StartCross(s3, idx, now, drift) ELSE s3
      s5 == IF carVs(WallLabel) THEN WallHit(s4, idx, now) ELSE s4
  IN IF s.thrown \/ ~involvesThisCar THEN s
     ELSE IF noIndexOf THEN [s2 EXCEPT !.thrown = TRUE]
     ELSE IF carVs(StartLabel) /\ InCooldown(s3, idx, now) THEN s3
     ELSE s5

(* ------------------------- per-car history ----------------------------- *)
\* What an observer of the inputs and callbacks knows about car i (kept in
\* single-player runs; two-player runs keep no history):
\*   orderPos   how much of 0,1,..,N-1 the checkpoint touches since the last
\*              onLap / resetRace / attach contain as an ordered subsequence
\*   again0     checkpoint 0 was touched after orderPos reached N
\*   minLap     least lap time passed to onLap since attach / resetRace (-1: none)
\*   recentLap  most recent lap time passed to onLap since then (-1: none)
\*   unearned   some onLap came when orderPos was not N
\*   doneAt     handler time of the most recent onLap, while less than
\*              StartCooldown ms have passed since (-1: none)
\*   doneReset  resetRace was called since doneAt
\*   wallAt     handler time of the most recent wall hit since attach /
\*              resetRace (-1: none)
NoHistory ==
  [ orderPos |-> 0, again0 |-> FALSE, unearned |-> FALSE,
    minLap |-> -1, recentLap |-> -1,
    doneAt |-> -1, doneReset |-> FALSE, wallAt |-> -1 ]

\* The pair is a collision between car i and the body labeled l.
Collides(pair, i, l) ==
  \/ (pair.bodyA = Body(i) /\ pair.bodyB = l)
  \/ (pair.bodyB = Body(i) /\ pair.bodyA = l)

LapCallsOf(cs, i) == { k \in DOMAIN cs : cs[k].cb = "onLap" /\ cs[k].car = i }

Observe(h, before, after, pair, i, now) ==
  LET N == Len(CHECKPOINTS)
      new == SubSeq(after.calls, Len(before.calls) + 1, Len(after.calls))
      laps == LapCallsOf(new, i)
      t == new[CHOOSE k \in laps : TRUE].arg
      h1 == IF \E k \in 0 .. (N - 1) : Collides(pair, i, CheckLabel(k))
            THEN LET k == CHOOSE k \in 0 .. (N - 1) : Collides(pair, i, CheckLabel(k))
                 IN IF h.orderPos < N /\ k = h.orderPos
                    THEN [h EXCEPT !.orderPos = @ + 1]
                    ELSE IF h.orderPos = N /\ k = 0
                    THEN [h EXCEPT !.again0 = TRUE]
                    ELSE h
            ELSE h
      h2 == IF laps # {}
            THEN [h1 EXCEPT !.orderPos = 0, !.again0 = FALSE,
                            !.unearned = (@ \/ h1.orderPos # N),
                            !.minLap = IF @ = -1 \/ t < @ THEN t ELSE @,
                            !.recentLap = t,
                            !.doneAt = now, !.doneReset = FALSE]
            ELSE h1
  IN IF Collides(pair, i, WallLabel)
     THEN [h2 EXCEPT !.wallAt = now]
     ELSE h2

(* ------------------------ handler loops -------------------------------- *)
RECURSIVE ForCars(_, _, _, _, _)
ForCars(w, pair, idx, now, drift) ==
  IF idx >= Len(w.s.carBodies) THEN w
  ELSE LET after == HandleCar(w.s, pair, idx, now, drift)
           h == IF Len(w.s.carBodies) = 1 /\ idx \in DOMAIN w.h
                THEN [w.h EXCEPT ![idx] = Observe(@, w.s, after, pair, idx, now)]
                ELSE w.h
       IN ForCars([s |-> after, h |-> h], pair, idx + 1, now, drift)

RECURSIVE ForPairs(_, _, _, _, _)
ForPairs(w, pairs, p, now, drift) ==
  IF p > Len(pairs) THEN w
  ELSE ForPairs(ForCars(w, pairs[p], 0, now, drift), pairs, p + 1, now, drift)

\* Events.on(engine, "collisionStart", function(evt) {...})
OnCollisionStart(pairs, drift) ==
  ForPairs([s |-> RaceState, h |-> hist], pairs, 1, clock, drift)

\* The variables a call of attachRaceRules declares, which its handler and
\* its handle close over.
Closure ==
  [ carBodies |-> carBodies,
    passedCheckpoint |-> passedCheckpoint,
    nextCheckpointIndex |-> nextCheckpointIndex,
    startCooldownMs |-> startCooldownMs,
    penaltyUntil |-> penaltyUntil,
    lapState |-> lapState ]

\* The handler of an earlier attachRaceRules runs on the same event, over
\* its own carBodies and its own arrays.  Its carBodies are the bodies of that
\* earlier game; it finds its cars by label, and initializeGame labels the
\* cars of every game "CAR" + index.  A handler attached to no car has an
\* empty car loop.
OnCollisionStartOf(c, pairs) ==
  LET s0 == [ clock |-> clock,
              carBodies |-> c.carBodies,
              passedCheckpoint |-> c.passedCheckpoint,
              nextCheckpointIndex |-> c.nextCheckpointIndex,
              startCooldownMs |-> c.startCooldownMs,
              penaltyUntil |-> c.penaltyUntil,
              lapState |-> c.lapState,
              calls |-> << >>,
              thrown |-> FALSE ]
      s == ForPairs([s |-> s0, h |-> << >>], pairs, 1, clock, 0).s
  IN [ c |-> [ carBodies |-> c.carBodies,
               passedCheckpoint |-> s.passedCheckpoint,
               nextCheckpointIndex |-> s.nextCheckpointIndex,
               startCooldownMs |-> s.startCooldownMs,
               penaltyUntil |-> s.penaltyUntil,
               lapState |-> s.lapState ],
       calls |-> s.calls ]

\* Events.trigger calls the handlers in the order they were registered: the
\* callbacks of handlers 1 .. k of the list, in that order.
RECURSIVE EarlierCalls(_, _, _)
EarlierCalls(cs, pairs, k) ==
  IF k = 0 THEN << >>
  ELSE EarlierCalls(cs, pairs, k - 1) \o OnCollisionStartOf(cs[k], pairs).calls

(* ------------------------------ turrets -------------------------------- *)
\* One entry of TURRETS as randomizeTurrets_ pushes it.
Turret(x, y) ==
  [ x |-> x, y |-> y, angle |-> 0,
    range |-> TURRET_CONFIG.forceRadius,
    triggerRadius |-> TURRET_CONFIG.triggerRadius,
    sprayRadius |-> TURRET_CONFIG.sprayRadius ]

\* Two accepted turrets, exactly minSpacing apart.
ModelTurrets == << Turret(1000, 1000), Turret(1750, 1000) >>

\* Turret indices are 0-based as in the source.
Turrets == 0 .. (Len(turretData) - 1)
Tur(i) == turretData[i + 1]

\* The static turret bodies buildTrack creates at (tur.x, tur.y).
turretBodies ==
  [ i \in DOMAIN turretData |->
      [ label |-> Label("TURRET_", i - 1),
        position |-> [x |-> turretData[i].x, y |-> turretData[i].y] ] ]

\* particles[i] is undefined until the first spray of turret i; afterwards
\* it is a list of n particles, which all have the same remaining life.
NoParticles == [n |-> -1, life |-> 0]
EmptyParticles == [n |-> 0, life |-> 0]

createTurretState_(turretCount) ==
  [ activeSprays |-> [i \in 0 .. (turretCount - 1) |-> FALSE],
    sprayEndTime |-> [i \in 0 .. (turretCount - 1) |-> 0],
    particles |-> [i \in 0 .. (turretCount - 1) |-> NoParticles],
    carsInTrigger |-> [i \in 0 .. (turretCount - 1) |-> FALSE],
    glowIntensity |-> [i \in 0 .. (turretCount - 1) |-> 0] ]

Abs(v) == IF v < 0 THEN -v ELSE v
Sgn(v) == IF v < 0 THEN -1 ELSE IF v > 0 THEN 1 ELSE 0
(* Numbers.  A length is a whole number of units of 1/65536 pixel, so whole
   and half pixels are exact; a cosine, a sine, a direction cosine or any
   other ratio in [-1, 1] is a whole number of units of 1/2^30.  Products are
   formed in two digits of 2^15 so that nothing exceeds 32 bits. *)
HalfPixel == 32768
Fine(px) == 2 * HalfPixel * px
One == HalfPixel * HalfPixel

\* |a| * |b| as hi * 2^30 + lo
Wide(a, b) ==
  LET a1 == Abs(a) \div HalfPixel
      a0 == Abs(a) % HalfPixel
      b1 == Abs(b) \div HalfPixel
      b0 == Abs(b) % HalfPixel
      mid == a1 * b0 + a0 * b1
      low == (mid % HalfPixel) * HalfPixel + a0 * b0
  IN [hi |-> a1 * b1 + mid \div HalfPixel + low \div One, lo |-> low % One]
WidePlus(p, q) ==
  [hi |-> p.hi + q.hi + (p.lo + q.lo) \div One, lo |-> (p.lo + q.lo) % One]
WideLess(p, q) == p.hi < q.hi \/ (p.hi = q.hi /\ p.lo < q.lo)

\* t * v for a ratio t and a length (or any whole number) v, toward zero.
\* The function takes the two factors as values, each computed once.
Times(t, v) ==
  LET product[a \in Int, b \in Int] ==
        LET a1 == Abs(a) \div HalfPixel
            a0 == Abs(a) % HalfPixel
            v1 == Abs(b) \div HalfPixel
            v0 == Abs(b) % HalfPixel
        IN Sgn(a) * Sgn(b)
             * (a1 * v1 + (a0 * v1) \div HalfPixel
                  + (a1 * v0 + (a0 * v0) \div HalfPixel) \div HalfPixel)
  IN product[t, v]

\* a / b as a ratio, for |a| <= |b|, toward zero: n more digits of base 4
\* of the quotient q, r being the remainder.  The pair p holds the next
\* remainder and quotient as values, so that each digit is computed once.
RECURSIVE RatioDigits(_, _, _, _)
RatioDigits(r, b, q, n) ==
  IF n = 0 THEN q
  ELSE CHOOSE d \in { RatioDigits(p[1], b, p[2], n - 1) :
                       p \in { << (4 * r) % b, 4 * q + (4 * r) \div b >> } } : TRUE
Ratio(a, b) ==
  LET quotient[x \in Int, y \in Int] ==
        Sgn(x) * Sgn(y)
          * (IF Abs(x) >= Abs(y) THEN One ELSE RatioDigits(Abs(x), Abs(y), 0, 15))
  IN quotient[a, b]

\* floor of the square root of n = x*x + y*y, by bisection
RECURSIVE RootBetween(_, _, _)
RootBetween(n, lo, hi) ==
  IF hi - lo <= 1 THEN lo
  ELSE CHOOSE r \in { IF WideLess(n, Wide(mid, mid)) THEN RootBetween(n, lo, mid)
                       ELSE RootBetween(n, mid, hi) :
                       mid \in { (lo + hi) \div 2 } } : TRUE
\* Math.hypot(x, y) of two lengths (or two numbers of one unit), rounded down
Norm(x, y) ==
  IF y = 0 THEN Abs(x) ELSE IF x = 0 THEN Abs(y)
  ELSE RootBetween(WidePlus(Wide(x, x), Wide(y, y)), Max(Abs(x), Abs(y)), Abs(x) + Abs(y))

\* Math.sqrt(Math.pow(dx, 2) + Math.pow(dy, 2)) of two whole numbers of
\* pixels, as a length: the root of a whole number is correctly rounded, a
\* whole root is exact.  Against a whole number of pixels below 32768 the
\* comparisons <, <=, > come out as they do for the real distance.
SqrtOfSquares(dx, dy) == Norm(Fine(dx), Fine(dy))

\* Math.hypot is an approximation the engine chooses.  Where the real
\* hypotenuse is no whole number, or an argument is 0, the comparisons with
\* whole numbers of pixels do not depend on the choice.  Where it is whole
\* and both arguments are not 0, the result may be the whole number or a
\* neighbour of it (V8 gives Math.hypot(126, 432) = 450.00000000000006):
\* mathHypot holds the engine's choice for such an offset, in units of
\* length, and is the same for (dx, dy), (dy, dx) and their negatives.
Ulps == {-1, 0, 1}
Offset(dx, dy) == << Min(Abs(dx), Abs(dy)), Max(Abs(dx), Abs(dy)) >>
WholeHypotenuse(dx, dy) ==
  /\ dx # 0 /\ dy # 0
  /\ \E r \in { Norm(Fine(dx), Fine(dy)) \div Fine(1) } : r * r = dx * dx + dy * dy
Rounding(dx, dy) ==
  IF Offset(dx, dy) \in DOMAIN mathHypot THEN mathHypot[Offset(dx, dy)] ELSE 0

\* Math.hypot(dx, dy) of two whole numbers of pixels, as a length
Hypot(dx, dy) == Norm(Fine(dx), Fine(dy)) + Rounding(dx, dy)

\* "dist <= triggerRadius && dist > 0"
InTrigger(dist, triggerRadius) == dist <= Fine(triggerRadius) /\ dist > 0

\* "dist <= forceRadius && dist > 0"
InForce(dist, forceRadius) == dist <= Fine(forceRadius) /\ dist > 0

\* Variant: a car entering the trigger radius restarts a running spray.
SprayStartsAnyTime(hasCarInTrigger, wasInTrigger, active) ==
  hasCarInTrigger /\ ~wasInTrigger

\* Variant: the spray starts whenever a car is inside and none is running.
SprayStartsNoEdge(hasCarInTrigger, wasInTrigger, active) ==
  hasCarInTrigger /\ ~active

\* "hasCarInTrigger && !wasInTrigger && !turretState.activeSprays[i]"
SprayStarts(hasCarInTrigger, wasInTrigger, active) ==
  hasCarInTrigger /\ ~wasInTrigger /\ ~active

\* Variant: a spray that is not timed from its start.
StartSprayUntimed(ts, i, now) ==
  [ts EXCEPT !.activeSprays[i] = TRUE,
             !.glowIntensity[i] = GlowFull,
             !.particles[i] = [n |-> ParticleCount, life |-> ParticleLife]]

\* Start of a spray: the state and the burst of 25 particles.
StartSpray(ts, i, now) ==
  [ts EXCEPT !.activeSprays[i] = TRUE,
             !.sprayEndTime[i] = now + SprayMs,
             !.glowIntensity[i] = GlowFull,
             !.particles[i] = [n |-> ParticleCount, life |-> ParticleLife]]

\* "part.life--; if (part.life <= 0) splice"
AgeParticles(ps) ==
  IF ps.n <= 0 THEN ps
  ELSE IF ps.life - 1 <= 0 THEN EmptyParticles
  ELSE [ps EXCEPT !.life = @ - 1]

\* Variant: the push fades to nothing at the edge of the force radius.
PushForceFading(dist, forceRadius) ==
  Times(One - Ratio(dist, Fine(forceRadius)), BaseForce)

\* 0.08 * Math.max(0.35, 1.0 - dist / forceRadius), in millionths
PushForce(dist, forceRadius) ==
  LET forceScale == Max(Ratio(MinForceScale, 1000), One - Ratio(dist, Fine(forceRadius)))
  IN Times(forceScale, BaseForce)

\* Variant: the second car of the list is pushed half as hard.
applyForceByPlayer(c, i, dx, dy, dist, forceRadius) ==
  [ cb |-> "applyForce", car |-> c, turret |-> i,
    x |-> Times(-Ratio(Fine(dx), dist), PushForce(dist, forceRadius) \div (c + 1)),
    y |-> Times(-Ratio(Fine(dy), dist), PushForce(dist, forceRadius) \div (c + 1)) ]

\* Matter.Body.applyForce(car, car.position, {x: pushDirX * pushForce, ...})
\* with pushDir = -dir, dir = (dx / dist, dy / dist); the force in millionths.
applyForce(c, i, dx, dy, dist, forceRadius) ==
  [ cb |-> "applyForce", car |-> c, turret |-> i,
    x |-> Times(-Ratio(Fine(dx), dist), PushForce(dist, forceRadius)),
    y |-> Times(-Ratio(Fine(dy), dist), PushForce(dist, forceRadius)) ]

\* Where a car can be when updateTurrets is called: on the line through the
\* two turrets, at distances 0, 300, 450, 451, 1100, 1101 and 1851 from the
\* first one; off that line at 450.43 and at 1100.26 from the first one; and
\* at the offset (126, 432) from the first one, whose hypotenuse is 450.
CarPositions ==
  { [x |-> 1000 + d, y |-> 1000] : d \in {0, 300, 450, 451, 1100, 1101, 1851} }
    \cup { [x |-> 1318, y |-> 1319], [x |-> 1777, y |-> 1779],
            [x |-> 1126, y |-> 1432] }

\* Where the cars can be in one call of updateTurrets: the first car at any
\* of the positions, the others 300, 1101 or 1851 from the first turret.
CarPlacements ==
  { carPositions \in [1 .. Len(carBodies) -> CarPositions] :
      \A c \in 2 .. Len(carBodies) :
        carPositions[c] \in { [x |-> 1000 + d, y |-> 1000] : d \in {300, 1101, 1851} } }

\* Where a car can be in a frame of the game: at its start position, on the
\* first sensor, 34 and 35 from its centre, on the second sensor, and 300
\* from the first turret (450 from the second).
FramePositions ==
  { [x |-> 600, y |-> 500], [x |-> 2100, y |-> 1500], [x |-> 2134, y |-> 1500],
    [x |-> 2135, y |-> 1500], [x |-> 2500, y |-> 1200], [x |-> 1300, y |-> 1000] }

\* The places of the turrets of ModelTurrets.
TurretPlaces == { [x |-> ModelTurrets[i].x, y |-> ModelTurrets[i].y] : i \in DOMAIN ModelTurrets }

\* The offsets from a turret to a car, among the positions explored, that
\* have a whole hypotenuse and no zero component.
ExactOffsets(positions, turrets) ==
  { o \in { Offset(p.x - turrets[i].x, p.y - turrets[i].y) :
              p \in positions, i \in DOMAIN turrets } :
      WholeHypotenuse(o[1], o[2]) }

\* The root of dx * dx + dy * dy for the offsets from the turrets of
\* ModelTurrets to the positions explored, computed once.
TurretDistances ==
  [ p \in CarPositions \cup FramePositions, t \in TurretPlaces |->
      Norm(Fine(p.x - t.x), Fine(p.y - t.y)) ]

\* Math.hypot(carPos.x - turPos.x, carPos.y - turPos.y)
DistanceTo(carPos, turPos) ==
  IF << carPos, turPos >> \in DOMAIN TurretDistances
  THEN TurretDistances[carPos, turPos]
         + Rounding(carPos.x - turPos.x, carPos.y - turPos.y)
  ELSE Hypot(carPos.x - turPos.x, carPos.y - turPos.y)

\* The force loop over the cars, for turret i at turPos.
RECURSIVE ForceCalls(_, _, _, _, _)
ForceCalls(i, turPos, forceRadius, carPositions, c) ==
  IF c >= Len(carPositions) THEN << >>
  ELSE LET dx == carPositions[c + 1].x - turPos.x
           dy == carPositions[c + 1].y - turPos.y
           dist == DistanceTo(carPositions[c + 1], turPos)
           rest == ForceCalls(i, turPos, forceRadius, carPositions, c + 1)
       IN IF InForce(dist, forceRadius)
          THEN << applyForce(c, i, dx, dy, dist, forceRadius) >> \o rest
          ELSE rest

\* Body of "for (var i ...)" of updateTurrets_ for turret i; w is
\* [ts |-> turret state, calls |-> applyForce calls so far], and Rest is what
\* follows the trigger loop.
UpdateTurret(w, i, carPositions, now) ==
  LET tur == Tur(i)
      turPos == turretBodies[i + 1].position
      triggerRadius == IF tur.triggerRadius # 0 THEN tur.triggerRadius
                       ELSE TURRET_CONFIG.triggerRadius
      forceRadius == IF tur.range # 0 THEN tur.range ELSE TURRET_CONFIG.forceRadius
      Rest[hasCarInTrigger \in BOOLEAN] ==
        LET wasInTrigger == w.ts.carsInTrigger[i]
            t1 == [w.ts EXCEPT !.carsInTrigger[i] = hasCarInTrigger]
            t2 == IF SprayStarts(hasCarInTrigger, wasInTrigger, t1.activeSprays[i])
                  THEN StartSpray(t1, i, now)
                  ELSE t1
            spraying == t2.activeSprays[i] /\ now < t2.sprayEndTime[i]
            t3 == IF spraying
                  THEN [t2 EXCEPT
                          !.particles[i] = AgeParticles(@),
                          !.glowIntensity[i] =
                            Max(0, GlowFull - ((now - (t2.sprayEndTime[i] - SprayMs)) \div 2))]
                  ELSE IF t2.activeSprays[i] /\ now >= t2.sprayEndTime[i]
                  THEN [t2 EXCEPT !.activeSprays[i] = FALSE,
                                  !.particles[i] = EmptyParticles,
                                  !.glowIntensity[i] = 0]
                  ELSE IF ~hasCarInTrigger
                  THEN [t2 EXCEPT !.glowIntensity[i] = Max(0, @ - GlowFade)]
                  ELSE t2
        IN [ ts |-> t3,
             calls |-> IF spraying
                       THEN w.calls \o ForceCalls(i, turPos, forceRadius, carPositions, 0)
                       ELSE w.calls ]
  IN Rest[\E c \in DOMAIN carPositions :
            InTrigger(DistanceTo(carPositions[c], turPos), triggerRadius)]

RECURSIVE ForTurrets(_, _, _, _)
ForTurrets(w, i, carPositions, now) ==
  IF i >= Len(turretData) THEN w
  ELSE CHOOSE r \in { ForTurrets(w1, i + 1, carPositions, now) :
                        w1 \in { UpdateTurret(w, i, carPositions, now) } } : TRUE

\* updateTurrets(turretState, turretData, turretBodies, carBodies, Matter)
updateTurrets_(ts, carPositions, now) ==
  CHOOSE r \in { ForTurrets(w, 0, carPositions, now) :
                   w \in { [ts |-> ts, calls |-> << >>] } } : TRUE

(* --------------------------- layout geometry --------------------------- *)
\* Positions, sizes and radii are whole pixels and angles are milliradians;
\* what is derived from them (corners, projections, offsets) is a length.
WORLD_BOUNDS == [W |-> 3000, H |-> 2000]
START_POSITIONS == << [x |-> 600, y |-> 500], [x |-> 640, y |-> 500] >>

RANDOMIZATION ==
  [ checkpointRadius |-> 35, checkpointMinSpacing |-> 320,
    obstacleSize |-> [wMin |-> 100, wMax |-> 160, hMin |-> 18, hMax |-> 26],
    obstacleAngleMax |-> 400, margin |-> 60 ]

\* checkpointRadius * 1.2
InflatedRadius == (RANDOMIZATION.checkpointRadius * 12) \div 10
\* "if (dist < 200)": clearance of a turret from every checkpoint
CheckpointClearance == 200

Barrier(x, y, w, h, a) == [x |-> x, y |-> y, w |-> w, h |-> h, a |-> a]

\* Math.cos and Math.sin of the angles that occur, as ratios.
MathCos(a) ==
  CASE a = 0 -> One
    [] Abs(a) = 100 -> 1068377587
    [] Abs(a) = 150 -> 1061684861
    [] Abs(a) = 200 -> 1052338475
    [] Abs(a) = 250 -> 1040361791
    [] Abs(a) = 300 -> 1025784744
    [] Abs(a) = 350 -> 1008643770
    [] Abs(a) = 400 -> 988981712
MathSin(a) ==
  Sgn(a) * (CASE a = 0 -> 0
              [] Abs(a) = 100 -> 107195315
              [] Abs(a) = 150 -> 160457973
              [] Abs(a) = 200 -> 213319570
              [] Abs(a) = 250 -> 265647978
              [] Abs(a) = 300 -> 317312406
              [] Abs(a) = 350 -> 368183717
              [] Abs(a) = 400 -> 418134761)

MinOf(S) == CHOOSE v \in S : \A u \in S : v <= u
MaxOf(S) == CHOOSE v \in S : \A u \in S : v >= u

circlesOverlap(ax, ay, ar, bx, by, br) ==
  LET dx == ax - bx
      dy == ay - by
      r == ar + br
  IN (dx * dx + dy * dy) < (r * r)

\* Centre, radius and sizes are whole pixels; lx, ly, hw, hh are lengths.
circleRectOverlap(cx, cy, cr, rx, ry, rw, rh, ra) ==
  LET cosA == MathCos(-ra)
      sinA == MathSin(-ra)
      lx == Times(cosA, Fine(cx - rx)) - Times(sinA, Fine(cy - ry))
      ly == Times(sinA, Fine(cx - rx)) + Times(cosA, Fine(cy - ry))
      hw == HalfPixel * rw
      hh == HalfPixel * rh
      closestX == Max(-hw, MinOf({lx, hw}))
      closestY == Max(-hh, MinOf({ly, hh}))
      dx == lx - closestX
      dy == ly - closestY
  IN WideLess(WidePlus(Wide(dx, dx), Wide(dy, dy)), Wide(Fine(cr), Fine(cr)))

\* Centre and sizes are whole pixels; the corners are lengths.
getCorners(x, y, w, h, a) ==
  LET hw == HalfPixel * w
      hh == HalfPixel * h
      c == MathCos(a)
      s == MathSin(a)
  IN << [x |-> Fine(x) + Times(c, -hw) - Times(s, -hh),
         y |-> Fine(y) + Times(s, -hw) + Times(c, -hh)],
        [x |-> Fine(x) + Times(c, hw) - Times(s, -hh),
         y |-> Fine(y) + Times(s, hw) + Times(c, -hh)],
        [x |-> Fine(x) + Times(c, hw) - Times(s, hh),
         y |-> Fine(y) + Times(s, hw) + Times(c, hh)],
        [x |-> Fine(x) + Times(c, -hw) - Times(s, hh),
         y |-> Fine(y) + Times(s, -hw) + Times(c, hh)] >>

project(poly, ax, ay) ==
  LET dots == {Times(ax, poly[i].x) + Times(ay, poly[i].y) : i \in DOMAIN poly}
  IN [min |-> MinOf(dots), max |-> MaxOf(dots)]

overlapOnAxis(pa, pb) == ~(pa.max < pb.min \/ pb.max < pa.min)

\* Separating-axis test over the two edge directions of A only.
OverlapOnAxesOf(A, B, axes) ==
  \A k \in DOMAIN axes :
    LET axv == axes[k]
        hyp == Norm(axv.x, axv.y)
        len == IF hyp = 0 THEN 1 ELSE hyp
        nx == Ratio(axv.x, len)
        ny == Ratio(axv.y, len)
    IN overlapOnAxis(project(A, nx, ny), project(B, nx, ny))

rectsOverlap(ax, ay, aw, ah, aa, bx, by, bw, bh, ba) ==
  LET A == getCorners(ax, ay, aw, ah, aa)
      B == getCorners(bx, by, bw, bh, ba)
  IN OverlapOnAxesOf(A, B, << [x |-> A[2].x - A[1].x, y |-> A[2].y - A[1].y],
                              [x |-> A[4].x - A[1].x, y |-> A[4].y - A[1].y] >>)

Overlaps(p, q) == rectsOverlap(p.x, p.y, p.w, p.h, p.a, q.x, q.y, q.w, q.h, q.a)

CURVED_BARRIERS_DEFAULT ==
  << Barrier(800, 300, 120, 20, 300),   Barrier(1200, 400, 140, 22, -200),
     Barrier(2000, 350, 100, 18, 400),  Barrier(600, 800, 160, 24, -100),
     Barrier(1500, 900, 130, 20, 250),  Barrier(2400, 850, 110, 22, -300),
     Barrier(900, 1400, 150, 26, 150),  Barrier(1800, 1500, 120, 20, -250),
     Barrier(2200, 1600, 140, 24, 350) >>

(* --------------------------- layout generation ------------------------- *)
\* The randomizer is explored with MaxObstacles obstacles, MaxCheckpoints
\* checkpoints, MaxTurrets turrets and MaxAttempts draws per stage in place of
\* 9, 6, 8 and 2000 (1000 for turrets); the module's default lists are cut to
\* the same counts.  Each draw of Math.random() picks one of a few candidates.
Idle(builds) == [stage |-> "idle", acc |-> << >>, attempts |-> 0, builds |-> builds]
Stage(g, stage) == [g EXCEPT !.stage = stage, !.acc = << >>, !.attempts = 0]

\* randRange(M, W - M), randRange(M, H - M)
InWorld(p, M) ==
  /\ p.x >= M /\ p.x <= WORLD_BOUNDS.W - M
  /\ p.y >= M /\ p.y <= WORLD_BOUNDS.H - M

ObstacleCandidates ==
  { b \in { Barrier(1000, 1000, 160, 18, 0), Barrier(940, 1040, 160, 18, 400),
            Barrier(2000, 500, 120, 20, 0) } :
      /\ InWorld(b, RANDOMIZATION.margin)
      /\ b.w >= RANDOMIZATION.obstacleSize.wMin /\ b.w <= RANDOMIZATION.obstacleSize.wMax
      /\ b.h >= RANDOMIZATION.obstacleSize.hMin /\ b.h <= RANDOMIZATION.obstacleSize.hMax
      /\ Abs(b.a) <= RANDOMIZATION.obstacleAngleMax }

CheckpointCandidates ==
  { p \in { [x |-> 1000, y |-> 1040], [x |-> 1750, y |-> 1150],
            [x |-> 500, y |-> 1500] } : InWorld(p, RANDOMIZATION.margin) }

TurretCandidates ==
  { p \in { [x |-> 1000, y |-> 1000], [x |-> 1750, y |-> 1000],
            [x |-> 600, y |-> 800] } : InWorld(p, TURRET_CONFIG.margin) }

\* An arena document: data.walls, data.checkpoints, data.pads.boost and
\* data.pads.grip; an array the document does not have is the empty one,
\* which the code treats alike.
Document(walls, checkpoints, boost, grip) ==
  [walls |-> walls, checkpoints |-> checkpoints, boost |-> boost, grip |-> grip]

Documents ==
  { Document(<< >>, << [x |-> 1200, y |-> 800, r |-> 40] >>, << >>, << >>),
    Document(<< Barrier(700, 700, 200, 20, 0) >>, << >>, << >>,
             << [x |-> 900, y |-> 900, w |-> 80, h |-> 80] >>),
    Document(<< >>,
             << [x |-> 1200, y |-> 800, r |-> 40], [x |-> 1500, y |-> 500, r |-> 30] >>,
             << [x |-> 300, y |-> 300, w |-> 80, h |-> 80] >>, << >>) }

\* rectsOverlap of every two candidates, worked out once.
CandidateOverlaps == [a \in ObstacleCandidates, b \in ObstacleCandidates |-> Overlaps(a, b)]

\* circleRectOverlap of every candidate checkpoint, its radius inflated, with
\* every obstacle that can be in effect, worked out once.
CandidateHits ==
  [ c \in CheckpointCandidates,
    b \in ObstacleCandidates
            \cup { CURVED_BARRIERS_DEFAULT[k] : k \in DOMAIN CURVED_BARRIERS_DEFAULT } |->
      circleRectOverlap(c.x, c.y, InflatedRadius, b.x, b.y, b.w, b.h, b.a) ]

\* The root of dx * dx + dy * dy from every candidate turret to every place a
\* turret or a checkpoint can be, worked out once.
CandidateDistances ==
  [ c \in TurretCandidates,
    q \in { << p.x, p.y >> : p \in TurretCandidates \cup CheckpointCandidates }
            \cup { << DefaultCheckpoints[k].x, DefaultCheckpoints[k].y >> :
                     k \in DOMAIN DefaultCheckpoints }
            \cup UNION { { << d.checkpoints[k].x, d.checkpoints[k].y >> :
                             k \in DOMAIN d.checkpoints } : d \in Documents } |->
      Norm(Fine(c.x - q[1]), Fine(c.y - q[2])) ]

\* Variant: the candidate is the second argument of the test.
ObstacleFitsReversed(obs, c) == \A j \in DOMAIN obs : ~CandidateOverlaps[obs[j], c]

\* "avoid with existing obstacles": okO
ObstacleFits(obs, c) == \A j \in DOMAIN obs : ~CandidateOverlaps[c, obs[j]]

TooClose(ax, ay, bx, by, spacing) ==
  LET dx == ax - bx
      dy == ay - by
  IN (dx * dx + dy * dy) < (spacing * spacing)

\* Variant: obstacles are not looked at.
CheckpointFitsSpacingOnly(cps, barriers, c) ==
  \A i \in DOMAIN cps :
    ~TooClose(c.x, c.y, cps[i].x, cps[i].y, RANDOMIZATION.checkpointMinSpacing)

\* "keep checkpoints separated", then "avoid overlapping any obstacle": ok
CheckpointFits(cps, barriers, c) ==
  /\ \A i \in DOMAIN cps :
       ~TooClose(c.x, c.y, cps[i].x, cps[i].y, RANDOMIZATION.checkpointMinSpacing)
  /\ \A k \in DOMAIN barriers : ~CandidateHits[c, barriers[k]]

\* "Check spacing from existing turrets", "Check spacing from checkpoints": ok
TurretFits(turrets, cps, c) ==
  /\ \A j \in DOMAIN turrets :
       ~(CandidateDistances[c, << turrets[j].x, turrets[j].y >>]
           + Rounding(c.x - turrets[j].x, c.y - turrets[j].y)
           < Fine(TURRET_CONFIG.minSpacing))
  /\ \A k \in DOMAIN cps :
       ~(CandidateDistances[c, << cps[k].x, cps[k].y >>]
           + Rounding(c.x - cps[k].x, c.y - cps[k].y)
           < Fine(CheckpointClearance))

\* Variant: a stage that ran out of attempts installs what it has.
InstallPartial(acc, count, previous) == IF Len(acc) > 0 THEN acc ELSE previous

\* "if (obs.length === obstacleCount) CURVED_BARRIERS = obs", and the same
\* for checkpoints; the turret stage tests ">=", which is the same test
\* because the loop stops at the count.
Install(acc, count, previous) == IF Len(acc) = count THEN acc ELSE previous

\* A body of the world: its label, its centre, its circleRadius (0 for a
\* rectangle) and the build that made it.
BodyAt(label, x, y, build) ==
  [label |-> label, x |-> x, y |-> y, circleRadius |-> 0, build |-> build]

\* Bodies.circle(cp.x, cp.y, cp.r, { isSensor: true, label: label })
CircleAt(label, x, y, r, build) ==
  [label |-> label, x |-> x, y |-> y, circleRadius |-> r, build |-> build]
TurretLabel(ti) == Label("TURRET_", ti)

\* addList of buildTrack
AddList(build, barriers, cps, turrets) ==
  LET W == WORLD_BOUNDS.W
      H == WORLD_BOUNDS.H
      wallThickness == 40
  IN { BodyAt(WallLabel, W \div 2, wallThickness \div 2, build),
       BodyAt(WallLabel, W \div 2, H - wallThickness \div 2, build),
       BodyAt(WallLabel, wallThickness \div 2, H \div 2, build),
       BodyAt(WallLabel, W - wallThickness \div 2, H \div 2, build),
       BodyAt(WallLabel, 1400, 900, build),
       BodyAt(WallLabel, 1650, 1100, build),
       BodyAt(StartLabel, 600, 400, build) }
     \cup { BodyAt(WallLabel, barriers[k].x, barriers[k].y, build) : k \in DOMAIN barriers }
     \cup { CircleAt(CheckLabel(k - 1), cps[k].x, cps[k].y, cps[k].r, build) :
              k \in DOMAIN cps }
     \cup { BodyAt(BoostLabel, 1000, 600, build), BodyAt(BoostLabel, 1600, 1200, build),
            BodyAt(BoostLabel, 2200, 1000, build) }
     \cup { BodyAt(GripLabel, 700, 1200, build), BodyAt(GripLabel, 1900, 600, build),
            BodyAt(GripLabel, 1400, 1600, build) }
     \cup { BodyAt(TurretLabel(k - 1), turrets[k].x, turrets[k].y, build) :
              k \in DOMAIN turrets }

\* World.add(world, addList)
WorldAdd(w, addList) == w \cup addList

(* ------------------------------ inputs --------------------------------- *)
TrackLabels == { b.label : b \in world }

\* Pairs with the car as bodyA, the same with the car as bodyB, car vs car.
CarFirstPairs == { [bodyA |-> Body(c), bodyB |-> l] : c \in Cars, l \in TrackLabels }
CarLastPairs == { [bodyA |-> p.bodyB, bodyB |-> p.bodyA] : p \in CarFirstPairs }
CarCarPairs ==
  { p \in { [bodyA |-> Body(c), bodyB |-> Body(d)] : c \in Cars, d \in Cars } :
      p.bodyA # p.bodyB }
Pairs == CarFirstPairs \cup CarLastPairs \cup CarCarPairs

\* evt.pairs of one collisionStart event: one pair, or a pair of the first
\* car followed by a start-line or wall pair of the last car.
PairLists ==
  { << p >> : p \in Pairs }
    \cup { << p, q >> :
             p \in { r \in CarFirstPairs : r.bodyA = Body(0) },
             q \in { r \in CarFirstPairs : /\ r.bodyA = Body(Len(carBodies) - 1)
                                           /\ r.bodyB \in {StartLabel, WallLabel} } }

\* What is remembered of the most recent event: a single pair is kept as
\* (car, other label); of a longer list only the length is kept.
CarOf(pair) == CHOOSE c \in Cars : pair.bodyA = Body(c) \/ pair.bodyB = Body(c)
OtherOf(pair) == IF pair.bodyA = Body(CarOf(pair)) THEN pair.bodyB ELSE pair.bodyA
EventOf(pairs, now) ==
  IF Len(pairs) = 1
  THEN [ op |-> "collisionStart", n |-> 1, car |-> CarOf(pairs[1]),
         other |-> OtherOf(pairs[1]), now |-> now ]
  ELSE [ op |-> "collisionStart", n |-> Len(pairs), car |-> -1,
         other |-> Label("", -1), now |-> now ]

(* ------------------------------ sketch.js ------------------------------ *)
\* The part of sketch.js's state that its function onCheckpoint writes.
\* millis() is read as the clock of performance.now(): the two differ by a
\* constant, and their readings are compared only with one another.
SketchState ==
  [cd |-> checkpointCooldowns, ac |-> alertCooldowns, timers |-> alertTimers]

\* "!arr[key] || arr[key] < millis() - ms"
Elapsed(arr, key, now, ms) ==
  key \notin DOMAIN arr \/ arr[key] = 0 \/ arr[key] < now - ms

\* onCheckpoint(carIndex, checkpointIndex) of sketch.js: the cooldown is
\* stamped, and with alerts switched on showCheckpointAlert sets a timer.
OnCheckpoint(k, carIndex, checkpointIndex, now) ==
  LET key == << carIndex, checkpointIndex >>
      k1 == [k EXCEPT !.cd = SetAt(@, key, now)]
  IN IF showCheckpointAlerts /\ Elapsed(k.ac, key, now, AlertCooldown)
     THEN [k1 EXCEPT !.ac = SetAt(@, key, now),
                     !.timers = Append(@, now + AlertDelay)]
     ELSE k1

\* The callbacks initializeGame gives to attachRaceRules, invoked in the
\* order of the list: onLap, onWallHit and onPad write nothing that is kept
\* here.
RECURSIVE Callbacks(_, _, _)
Callbacks(k, cs, now) ==
  IF cs = << >> THEN k
  ELSE CHOOSE r \in { Callbacks(k1, Tail(cs), now) :
                        k1 \in { IF Head(cs).cb = "onCheckpoint"
                                 THEN OnCheckpoint(k, Head(cs).car, Head(cs).arg, now)
                                 ELSE k } } : TRUE

\* track.checkpoints: the sensors of the buildTrack call of initializeTrack
TrackCheckpoints == { b \in world : b.label.tag = "CHECK_" /\ b.build = 1 }

\* Math.sqrt(Math.pow(dx, 2) + Math.pow(dy, 2)) from the sensors of the
\* default checkpoints to the positions of the frames, worked out once.
SensorDistances ==
  [ p \in FramePositions,
    q \in { << DefaultCheckpoints[k].x, DefaultCheckpoints[k].y >> :
              k \in DOMAIN DefaultCheckpoints } |->
      SqrtOfSquares(p.x - q[1], p.y - q[2]) ]

\* "const distance = Math.sqrt(Math.pow(dx, 2) + Math.pow(dy, 2))"
DistanceToSensor(carPos, checkpoint) ==
  IF << carPos, << checkpoint.x, checkpoint.y >> >> \in DOMAIN SensorDistances
  THEN SensorDistances[carPos, << checkpoint.x, checkpoint.y >>]
  ELSE SqrtOfSquares(carPos.x - checkpoint.x, carPos.y - checkpoint.y)

\* Body of the two loops of checkCheckpointProximity for car carIndex and
\* sensor cpIndex; w is [k |-> sketch state, calls |-> onCheckpoint calls so far].
ProximityOf(w, carPos, carIndex, cpIndex, now) ==
  LET cooldownKey == << carIndex, cpIndex >>
      Near[checkpoint \in TrackCheckpoints] ==
        LET cpRadius == IF checkpoint.circleRadius # 0 THEN checkpoint.circleRadius
                        ELSE SensorRadius
            distance == DistanceToSensor(carPos, checkpoint)
        IN IF distance < Fine(cpRadius)
                /\ Elapsed(w.k.cd, cooldownKey, now, ProximityCooldown)
           THEN [ k |-> OnCheckpoint([w.k EXCEPT !.cd = SetAt(@, cooldownKey, now)],
                                     carIndex, cpIndex, now),
                  calls |-> Append(w.calls, onCheckpoint(carIndex, cpIndex)) ]
           ELSE w
  IN Near[CHOOSE b \in TrackCheckpoints : b.label.n = cpIndex]

\* The loops, car by car and sensor by sensor; j counts the passes.
RECURSIVE ProximityFrom(_, _, _, _)
ProximityFrom(w, carPositions, j, now) ==
  LET K == Cardinality(TrackCheckpoints)
  IN IF j >= Len(carPositions) * K THEN w
     ELSE CHOOSE r \in { ProximityFrom(w1, carPositions, j + 1, now) :
                           w1 \in { ProximityOf(w, carPositions[j \div K + 1],
                                                j \div K, j % K, now) } } : TRUE

\* checkCheckpointProximity()
checkCheckpointProximity(k, carPositions, now) ==
  CHOOSE r \in { ProximityFrom(w, carPositions, 0, now) :
                   w \in { [k |-> k, calls |-> << >>] } } : TRUE

\* let twoPlayerMaxTime = 1800: explored with MaxGameFrames frames.
twoPlayerMaxTime == MaxGameFrames

\* pauseGame(), resumeGame(), returnToMenu() and showGameOver(), as the value
\* they leave in gameState.
pauseGame(state) == IF state = "playing" THEN "paused" ELSE state
resumeGame(state) == "playing"
returnToMenu(state) == "menu"
showGameOver(state) == "gameOver"

\* The keys keyPressed tells apart, lower case for both cases of a letter;
\* "e" toggles the particles and "Control" respawns the second player, which
\* write nothing that is kept here.
Keys == {"p", "r", "Control", "Escape", "t", "l", "e", "m", "g"}

\* The branch of key R that calls restartGame().
Restarts(key) ==
  /\ key = "r"
  /\ \/ gameState = "gameOver"
     \/ gameState \in {"playing", "paused"} /\ gameMode = "single"

\* gameState after keyPressed, for a key that does not restart the game.
KeyState(key) ==
  IF key = "p"
  THEN IF gameState = "playing" THEN pauseGame(gameState)
       ELSE IF gameState = "paused" THEN resumeGame(gameState) ELSE gameState
  ELSE IF key = "Escape"
  THEN IF gameState = "playing" THEN pauseGame(gameState)
       ELSE IF gameState = "paused" THEN returnToMenu(gameState) ELSE gameState
  ELSE IF key = "m"
  THEN IF gameState \in {"gameOver", "playing", "paused"} THEN returnToMenu(gameState)
       ELSE gameState
  ELSE IF key = "g" THEN "playing"
  ELSE gameState

\* The buttons setupMenuSystem binds that do more than show or hide a menu.
Buttons == {"btn-single", "btn-two-player", "btn-resume", "btn-restart", "btn-menu"}

\* What a frame finds: the pairs of the collisionStart event of
\* Engine.update, none when no collision started, one car touching the
\* start line, a wall or a sensor otherwise.
FramePairs ==
  { << >> }
    \cup { << [bodyA |-> Body(c), bodyB |-> l] >> :
             c \in Cars,
             l \in {StartLabel, WallLabel}
                     \cup { CheckLabel(n) : n \in 0 .. (Len(CHECKPOINTS) - 1) } }

(* ------------------------------ actions -------------------------------- *)
\* State after track.js was loaded and, with builds = 1, buildTrack was
\* called once; with carsCount > 0, after attachRaceRules(Matter, engine,
\* carBodies, callbacks) was called with carsCount cars labeled "CAR" + index.
\* The variables of sketch.js have the values of their declarations.
InitTrack(carsCount, turrets, builds) ==
  /\ clock = 0
  /\ turretData = turrets
  /\ turretState = createTurretState_(Len(turrets))
  /\ CURVED_BARRIERS = SubSeq(CURVED_BARRIERS_DEFAULT, 1, MaxObstacles)
  /\ TURRETS = turrets
  /\ gen = Idle(builds)
  /\ attachments = << >>
  /\ attached = (carsCount > 0)
  /\ carBodies = [i \in 1 .. carsCount |-> CarLabel(i - 1)]
  /\ \E n \in (IF carsCount = 1 THEN CheckpointCounts ELSE {MaxCheckpoints}) :
       CHECKPOINTS = SubSeq(DefaultCheckpoints, 1, n)
  /\ world = IF builds = 0 THEN {}
             ELSE AddList(1, CURVED_BARRIERS, CHECKPOINTS, turrets)
  /\ passedCheckpoint = [i \in 0 .. (carsCount - 1) |-> FALSE]
  /\ nextCheckpointIndex = [i \in 0 .. (carsCount - 1) |-> 0]
  /\ startCooldownMs = [i \in 0 .. (carsCount - 1) |-> 0]
  /\ penaltyUntil = [i \in 0 .. (carsCount - 1) |-> 0]
  /\ lapState = createLapState_(carsCount, 0)
  /\ calls = << >>
  /\ evt = [op |-> IF carsCount > 0 THEN "attachRaceRules" ELSE "load", now |-> 0]
  /\ gameState = "menu"
  /\ gameMode = "single"
  /\ twoPlayerTimer = twoPlayerMaxTime
  /\ checkpointCooldowns = << >>
  /\ showCheckpointAlerts = FALSE
  /\ alertCooldowns = << >>
  /\ alertTimers = << >>
  /\ frames = 0
  /\ hist = [i \in 0 .. (carsCount - 1) |-> NoHistory]

\* track.js driven by a caller other than sketch.js, whose callbacks do
\* nothing but record the call: the state right after attachRaceRules, or,
\* with no cars, before buildTrack.
InitRace(carsCount, turrets) ==
  /\ InitTrack(carsCount, turrets, IF carsCount = 0 THEN 0 ELSE 1)
  /\ callbacks = "recorded"
  /\ mathHypot \in [ExactOffsets(CarPositions, turrets) -> Ulps]

\* Two-player races are explored for one tick, without clock drift.
Horizon == IF Len(carBodies) = 1 \/ Len(turretData) > 0 THEN MaxClock ELSE TickMs

\* A collisionStart event of the engine, with the pairs of the event.
CollisionStart ==
  \E pairs \in PairLists :
  callbacks = "recorded" /\
  \E drift \in IF \E k \in DOMAIN pairs : StartLabel \in {pairs[k].bodyA, pairs[k].bodyB}
                   /\ Len(carBodies) = 1
                THEN ClockDrifts ELSE {0} :
    /\ (clock % TickMs) + Len(pairs) * drift <= 1
    /\ clock + Len(pairs) * drift <= Horizon
    /\ \E w \in {OnCollisionStart(pairs, drift)} :
          /\ clock' = w.s.clock
          /\ passedCheckpoint' = w.s.passedCheckpoint
          /\ nextCheckpointIndex' = w.s.nextCheckpointIndex
          /\ startCooldownMs' = w.s.startCooldownMs
          /\ penaltyUntil' = w.s.penaltyUntil
          /\ lapState' = w.s.lapState
          /\ calls' = EarlierCalls(attachments, pairs, Len(attachments)) \o w.s.calls
          /\ hist' = w.h
    /\ attachments' = [k \in DOMAIN attachments |->
                          OnCollisionStartOf(attachments[k], pairs).c]
    /\ evt' = EventOf(pairs, clock)
    /\ UNCHANGED << carBodies, CHECKPOINTS, turretData, turretState >>
    /\ UNCHANGED << layout, sketch, attached, frames, mathHypot >>

\* Bodies the race rules know nothing of: a body without a label, one with
\* a number as label, Matter's default label "Body", a car that is not
\* attached, and checkpoint-like labels "CHECK_abc", "CHECK_0x", "CHECK_1x"
\* and "CHECK_" + N.
StrayLabels ==
  { JsUndefined, JsNumber(7), Label("Body", -1), CarLabel(Len(carBodies)),
    CheckLabelText("abc"), CheckLabelThen(0, "x"), CheckLabelThen(1, "x"),
    CheckLabel(Len(CHECKPOINTS)) }

\* A car with a stray body, in both orders; two bodies none of which is an
\* attached car; two cars.
StrayPairs ==
  { [bodyA |-> Body(c), bodyB |-> l] : c \in Cars, l \in StrayLabels }
    \cup { [bodyA |-> l, bodyB |-> Body(c)] : c \in Cars, l \in StrayLabels }
    \cup { [bodyA |-> l, bodyB |-> m] :
             l \in {WallLabel, JsNumber(7), CarLabel(Len(carBodies))},
             m \in {CheckLabel(0), StartLabel, JsUndefined} }
    \cup CarCarPairs

\* A collisionStart event with one pair the race rules do not recognize, on
\* an engine with one handler; an exception the handler throws leaves it
\* through Events.trigger.
StrayCollisionStart ==
  \E pair \in StrayPairs :
    /\ callbacks = "recorded"
    /\ attachments = << >>
    /\ \E w \in {OnCollisionStart(<< pair >>, 0)} :
          /\ clock' = w.s.clock
          /\ passedCheckpoint' = w.s.passedCheckpoint
          /\ nextCheckpointIndex' = w.s.nextCheckpointIndex
          /\ startCooldownMs' = w.s.startCooldownMs
          /\ penaltyUntil' = w.s.penaltyUntil
          /\ lapState' = w.s.lapState
          /\ calls' = w.s.calls
          /\ hist' = w.h
          /\ evt' = [ op |-> "strayCollision", now |-> clock, pair |-> pair,
                      outcome |-> IF w.s.thrown THEN "TypeError" ELSE "returned" ]
    /\ UNCHANGED << carBodies, CHECKPOINTS, turretData, turretState >>
    /\ UNCHANGED << layout, attachments, sketch, attached, frames, mathHypot >>

\* attachRaceRules(Matter, engine, carBodies, callbacks) with carsCount car
\* bodies labeled "CAR" + index: the call registers one more collisionStart
\* handler with a fresh race state; the handlers registered before stay on
\* the engine.  Called with no car bodies it does the same with empty arrays.
attachRaceRules(carsCount) ==
  /\ attached => Len(attachments) < MaxAttachments
  /\ attachments' = IF attached THEN Append(attachments, Closure) ELSE attachments
  /\ attached' = TRUE
  /\ carBodies' = [i \in 1 .. carsCount |-> CarLabel(i - 1)]
  /\ passedCheckpoint' = [i \in 0 .. (carsCount - 1) |-> FALSE]
  /\ nextCheckpointIndex' = [i \in 0 .. (carsCount - 1) |-> 0]
  /\ startCooldownMs' = [i \in 0 .. (carsCount - 1) |-> 0]
  /\ penaltyUntil' = [i \in 0 .. (carsCount - 1) |-> 0]
  /\ lapState' = createLapState_(carsCount, clock)
  /\ hist' = [i \in 0 .. (carsCount - 1) |-> NoHistory]

\* attachRaceRules called again on the same engine.
AttachRaceRules ==
  \E carsCount \in {0, 1, 2} :
    /\ callbacks = "recorded"
    /\ attachRaceRules(carsCount)
    /\ calls' = << >>
    /\ evt' = [ op |-> "attachRaceRules", now |-> clock, outcome |-> "returned",
                handlers |-> Len(attachments') + 1 ]
    /\ UNCHANGED << clock, CHECKPOINTS, turretData, turretState >>
    /\ UNCHANGED << layout, sketch, frames, mathHypot >>

\* resetRace(index) of the handle returned by attachRaceRules.
resetRace(index) ==
  /\ callbacks = "recorded"
  /\ passedCheckpoint' = SetAt(passedCheckpoint, index, FALSE)
  /\ nextCheckpointIndex' = SetAt(nextCheckpointIndex, index, 0)
  /\ startCooldownMs' = SetAt(startCooldownMs, index, 0)
  /\ penaltyUntil' = SetAt(penaltyUntil, index, 0)
  /\ lapState' = resetLapState_(lapState, index, clock)
  /\ calls' = << >>
  /\ evt' = [op |-> "resetRace", index |-> index, now |-> clock]
  /\ hist' = IF index \notin Cars THEN hist
             ELSE [hist EXCEPT ![index] =
                     IF Len(carBodies) = 1
                     THEN [NoHistory EXCEPT !.unearned = hist[index].unearned,
                                            !.doneAt = hist[index].doneAt,
                                            !.doneReset = (hist[index].doneAt # -1)]
                     ELSE NoHistory]
  /\ UNCHANGED << clock, carBodies, CHECKPOINTS, turretData, turretState >>
  /\ UNCHANGED << layout, attachments, sketch, attached, frames, mathHypot >>

\* resetRace called for one of the attached cars.
ResetRace == \E index \in Cars : resetRace(index)

\* Time passes between two operations.
Tick ==
  /\ clock + TickMs <= Horizon
  /\ clock' = clock + TickMs
  /\ frames' = 0
  /\ calls' = << >>
  /\ evt' = [op |-> "tick", now |-> clock]
  /\ hist' = [i \in Cars |->
                IF hist[i].doneAt # -1 /\ clock' >= hist[i].doneAt + StartCooldown
                THEN [hist[i] EXCEPT !.doneAt = -1, !.doneReset = FALSE]
                ELSE hist[i]]
  /\ UNCHANGED << carBodies, CHECKPOINTS, passedCheckpoint, nextCheckpointIndex,
                  startCooldownMs, penaltyUntil, lapState, turretData, turretState >>
  /\ UNCHANGED << layout, attachments, sketch, attached, mathHypot >>

\* updateTurrets(turretState, turretData, turretBodies, carBodies, Matter)
\* called with the cars wherever they are, and its result kept as the turret
\* state.
UpdateTurrets ==
  \E carPositions \in CarPlacements :
    /\ callbacks = "recorded"
    /\ frames < MaxFrames
    /\ frames' = frames + 1
    /\ evt' = [op |-> "updateTurrets", now |-> clock, carPositions |-> carPositions]
    /\ \E w \in {updateTurrets_(turretState, carPositions, clock)} :
          /\ turretState' = w.ts
          /\ calls' = w.calls
    /\ UNCHANGED << clock, carBodies, CHECKPOINTS, passedCheckpoint,
                    nextCheckpointIndex, startCooldownMs, penaltyUntil, lapState,
                    turretData, hist >>
    /\ UNCHANGED << layout, attachments, sketch, attached, mathHypot >>

\* What buildTrack leaves alone: the clock and the race rules' state.
race == << clock, carBodies, passedCheckpoint, nextCheckpointIndex, startCooldownMs,
           penaltyUntil, lapState, attachments, attached, hist >>

\* initializeGame() with the cars of the game mode: new cars labeled
\* "CAR" + index, attachRaceRules on the same engine, and the resets.
initializeGame(carsCount) ==
  /\ attachRaceRules(carsCount)
  /\ checkpointCooldowns' = << >>
  /\ alertCooldowns' = << >>
  /\ twoPlayerTimer' = twoPlayerMaxTime

\* restartGame(): it writes the resets of initializeGame itself as well.
restartGame ==
  /\ gameState' = resumeGame("playing")
  /\ initializeGame(IF gameMode = "single" THEN 1 ELSE 2)
  /\ UNCHANGED gameMode

\* One frame of a game that is playing, draw(): Engine.update(engine), which
\* triggers collisionStart with the pairs of the frame, if any, and then
\* updateGameLogic(): the countdown of a two-player game, which ends the
\* frame with showGameOver() when it reaches 0, updateTurrets with the cars
\* where they are, and checkCheckpointProximity().  In any other game state
\* draw() changes nothing that is kept here.
DrawFrame(pairs, carPositions) ==
  /\ callbacks = "sketch"
  /\ gameState = "playing"
  /\ frames < MaxFrames
  /\ frames' = frames + 1
  /\ \E w \in {OnCollisionStart(pairs, 0)} :
     \E handled \in {EarlierCalls(attachments, pairs, Len(attachments)) \o w.s.calls} :
     \E over \in {gameMode = "two-player" /\ twoPlayerTimer - 1 <= 0} :
     \E updated \in {~over /\ Len(carBodies) > 0} :
     \E tur \in { IF updated THEN updateTurrets_(turretState, carPositions, clock)
                  ELSE [ts |-> turretState, calls |-> << >>] } :
     \E k1 \in {Callbacks(SketchState, handled, clock)} :
     \E near \in { IF over THEN [k |-> k1, calls |-> << >>]
                   ELSE checkCheckpointProximity(k1, carPositions, clock) } :
       /\ Len(near.k.timers) <= MaxAlerts
       /\ passedCheckpoint' = w.s.passedCheckpoint
       /\ nextCheckpointIndex' = w.s.nextCheckpointIndex
       /\ startCooldownMs' = w.s.startCooldownMs
       /\ penaltyUntil' = w.s.penaltyUntil
       /\ lapState' = w.s.lapState
       /\ hist' = w.h
       /\ attachments' = [k \in DOMAIN attachments |->
                             OnCollisionStartOf(attachments[k], pairs).c]
       /\ twoPlayerTimer' = IF gameMode = "two-player"
                            THEN twoPlayerTimer - 1 ELSE twoPlayerTimer
       /\ gameState' = IF over THEN showGameOver(gameState) ELSE gameState
       /\ turretState' = tur.ts
       /\ checkpointCooldowns' = near.k.cd
       /\ alertCooldowns' = near.k.ac
       /\ alertTimers' = near.k.timers
       /\ calls' = handled \o tur.calls \o near.calls
       /\ evt' = [op |-> "draw", now |-> clock, updated |-> updated]
  /\ UNCHANGED << clock, carBodies, CHECKPOINTS, turretData, attached >>
  /\ UNCHANGED << layout, callbacks, gameMode, showCheckpointAlerts, mathHypot >>

\* A frame with any of the collisions and the cars at any of the positions.
Draw ==
  \E pairs \in FramePairs :
    \E carPositions \in [1 .. Len(carBodies) -> FramePositions] :
      DrawFrame(pairs, carPositions)

\* A frame in which no collision starts, the cars at the start or 300 from
\* the first turret.
LivePositions == { [x |-> 600, y |-> 500], [x |-> 1300, y |-> 1000] }
DrawLive ==
  \E carPositions \in [1 .. Len(carBodies) -> LivePositions] :
    DrawFrame(<< >>, carPositions)

\* keyPressed() with the key given.
KeyPressed(key) ==
  /\ callbacks = "sketch"
  /\ evt' = [op |-> "keyPressed", key |-> key, now |-> clock]
  /\ IF Restarts(key)
     THEN /\ restartGame
          /\ calls' = << >>
          /\ UNCHANGED << showCheckpointAlerts, alertTimers >>
     ELSE /\ gameState' = KeyState(key)
          /\ showCheckpointAlerts' = IF key = "l" THEN ~showCheckpointAlerts
                                     ELSE showCheckpointAlerts
          /\ \E k \in { IF key = "t" THEN OnCheckpoint(SketchState, 0, 0, clock)
                        ELSE SketchState } :
               /\ checkpointCooldowns' = k.cd
               /\ alertCooldowns' = k.ac
               /\ alertTimers' = k.timers
               /\ Len(k.timers) <= MaxAlerts
          /\ calls' = IF key = "t" THEN << onCheckpoint(0, 0) >> ELSE << >>
          /\ UNCHANGED << carBodies, passedCheckpoint, nextCheckpointIndex,
                          startCooldownMs, penaltyUntil, lapState, attachments,
                          attached, hist, gameMode, twoPlayerTimer >>
  /\ UNCHANGED << clock, CHECKPOINTS, turretData, turretState, layout, callbacks,
                  frames, mathHypot >>

\* A click on one of the buttons of the menus.
Click(button) ==
  /\ callbacks = "sketch"
  /\ evt' = [op |-> "click", button |-> button, now |-> clock]
  /\ calls' = << >>
  /\ IF button \in {"btn-single", "btn-two-player"}
     THEN /\ gameMode' = IF button = "btn-single" THEN "single" ELSE "two-player"
          /\ gameState' = "playing"
          /\ initializeGame(IF button = "btn-single" THEN 1 ELSE 2)
     ELSE IF button = "btn-restart"
     THEN restartGame
     ELSE /\ gameState' = IF button = "btn-resume" THEN resumeGame(gameState)
                          ELSE returnToMenu(gameState)
          /\ UNCHANGED << carBodies, passedCheckpoint, nextCheckpointIndex,
                          startCooldownMs, penaltyUntil, lapState, attachments,
                          attached, hist, gameMode, twoPlayerTimer,
                          checkpointCooldowns, alertCooldowns >>
  /\ UNCHANGED << clock, CHECKPOINTS, turretData, turretState, layout, callbacks,
                  showCheckpointAlerts, alertTimers, frames, mathHypot >>

\* The timer of showCheckpointAlert runs, AlertDelay ms or more after it was
\* set: confirm() is answered with OK (the game plays on) or with Cancel
\* (returnToMenu()).
AlertTimer(ok) ==
  /\ callbacks = "sketch"
  /\ alertTimers # << >>
  /\ Head(alertTimers) <= clock
  /\ alertTimers' = Tail(alertTimers)
  /\ gameState' = IF ok THEN "playing" ELSE returnToMenu(gameState)
  /\ calls' = << >>
  /\ evt' = [op |-> "alertTimer", ok |-> ok, now |-> clock]
  /\ UNCHANGED << race, CHECKPOINTS, turretData, turretState, layout, callbacks,
                  gameMode, twoPlayerTimer, checkpointCooldowns,
                  showCheckpointAlerts, alertCooldowns, frames, mathHypot >>

\* buildTrack(Matter, world) is called: the fixed walls are made and
\* randomizeTrackLayout_ starts its obstacle loop.
BuildTrack ==
  /\ gen.stage = "idle"
  /\ gen.builds < MaxBuilds
  /\ gen' = Stage(gen, "obstacles")
  /\ calls' = << >>
  /\ evt' = [op |-> "buildTrack", now |-> clock]
  /\ UNCHANGED << race, sketch, frames, mathHypot, CHECKPOINTS, CURVED_BARRIERS, TURRETS, world, turretData,
                  turretState >>

\* One pass of "while (obs.length < obstacleCount && attempts < maxAttempts)".
DrawObstacle ==
  /\ gen.stage = "obstacles"
  /\ Len(gen.acc) < MaxObstacles /\ gen.attempts < MaxAttempts
  /\ \E c \in ObstacleCandidates :
       gen' = [gen EXCEPT !.attempts = @ + 1,
                          !.acc = IF ObstacleFits(@, c) THEN Append(@, c) ELSE @]
  /\ calls' = << >>
  /\ evt' = [op |-> "drawObstacle", now |-> clock]
  /\ UNCHANGED << race, sketch, frames, mathHypot, CHECKPOINTS, CURVED_BARRIERS, TURRETS, world, turretData,
                  turretState >>

\* The obstacle loop is over: "if (obs.length === obstacleCount) ...".
FinishObstacles ==
  /\ gen.stage = "obstacles"
  /\ ~(Len(gen.acc) < MaxObstacles /\ gen.attempts < MaxAttempts)
  /\ CURVED_BARRIERS' = Install(gen.acc, MaxObstacles, CURVED_BARRIERS)
  /\ gen' = Stage(gen, "checkpoints")
  /\ calls' = << >>
  /\ evt' = [op |-> "finishObstacles", now |-> clock, got |-> Len(gen.acc),
             attempts |-> gen.attempts]
  /\ UNCHANGED << race, sketch, frames, mathHypot, CHECKPOINTS, TURRETS, world, turretData, turretState >>

\* One pass of "while (cps.length < checkpointCount && attempts < maxAttempts)".
DrawCheckpoint ==
  /\ gen.stage = "checkpoints"
  /\ Len(gen.acc) < MaxCheckpoints /\ gen.attempts < MaxAttempts
  /\ \E c \in CheckpointCandidates :
       gen' = [gen EXCEPT
                 !.attempts = @ + 1,
                 !.acc = IF CheckpointFits(@, CURVED_BARRIERS, c)
                         THEN Append(@, [x |-> c.x, y |-> c.y,
                                         r |-> RANDOMIZATION.checkpointRadius])
                         ELSE @]
  /\ calls' = << >>
  /\ evt' = [op |-> "drawCheckpoint", now |-> clock]
  /\ UNCHANGED << race, sketch, frames, mathHypot, CHECKPOINTS, CURVED_BARRIERS, TURRETS, world, turretData,
                  turretState >>

\* The checkpoint loop is over; randomizeTurrets_ starts.
FinishCheckpoints ==
  /\ gen.stage = "checkpoints"
  /\ ~(Len(gen.acc) < MaxCheckpoints /\ gen.attempts < MaxAttempts)
  /\ CHECKPOINTS' = Install(gen.acc, MaxCheckpoints, CHECKPOINTS)
  /\ gen' = Stage(gen, "turrets")
  /\ calls' = << >>
  /\ evt' = [op |-> "finishCheckpoints", now |-> clock, got |-> Len(gen.acc),
             attempts |-> gen.attempts]
  /\ UNCHANGED << race, sketch, frames, mathHypot, CURVED_BARRIERS, TURRETS, world, turretData, turretState >>

\* One pass of "while (turrets.length < count && attempts < maxAttempts)".
DrawTurret ==
  /\ gen.stage = "turrets"
  /\ Len(gen.acc) < MaxTurrets /\ gen.attempts < MaxAttempts
  /\ \E c \in TurretCandidates :
       gen' = [gen EXCEPT
                 !.attempts = @ + 1,
                 !.acc = IF TurretFits(@, CHECKPOINTS, c)
                         THEN Append(@, Turret(c.x, c.y)) ELSE @]
  /\ calls' = << >>
  /\ evt' = [op |-> "drawTurret", now |-> clock]
  /\ UNCHANGED << race, sketch, frames, mathHypot, CHECKPOINTS, CURVED_BARRIERS, TURRETS, world, turretData,
                  turretState >>

\* The turret loop is over: randomizeTurrets_ returns and buildTrack makes
\* the bodies, adds them to the world and returns the track handle.
FinishBuild ==
  /\ gen.stage = "turrets"
  /\ ~(Len(gen.acc) < MaxTurrets /\ gen.attempts < MaxAttempts)
  /\ TURRETS' = Install(gen.acc, MaxTurrets, TURRETS)
  /\ world' = WorldAdd(world, AddList(gen.builds + 1, CURVED_BARRIERS, CHECKPOINTS,
                                      TURRETS'))
  /\ turretData' = TURRETS'
  /\ turretState' = createTurretState_(Len(TURRETS'))
  /\ gen' = Idle(gen.builds + 1)
  /\ calls' = << >>
  /\ evt' = [op |-> "finishBuild", now |-> clock, got |-> Len(gen.acc),
             attempts |-> gen.attempts]
  /\ UNCHANGED << race, sketch, frames, mathHypot, CHECKPOINTS, CURVED_BARRIERS >>

\* CHECKPOINTS.push({ x: cp.x, y: cp.y, r: cp.r }) for every entry
LoadedCheckpoints(data) ==
  [c \in DOMAIN data.checkpoints |->
     [x |-> data.checkpoints[c].x, y |-> data.checkpoints[c].y, r |-> data.checkpoints[c].r]]

\* addList of loadArenaFromJSON; load tells the bodies of one call from
\* those of another and from those buildTrack made.
LoadList(data, load) ==
  { BodyAt(WallLabel, data.walls[i].x, data.walls[i].y, load) : i \in DOMAIN data.walls }
    \cup { CircleAt(CheckLabel(c - 1), data.checkpoints[c].x, data.checkpoints[c].y,
                      data.checkpoints[c].r, load) :
             c \in DOMAIN data.checkpoints }
    \cup { BodyAt(BoostLabel, data.boost[b].x, data.boost[b].y, load) : b \in DOMAIN data.boost }
    \cup { BodyAt(GripLabel, data.grip[g].x, data.grip[g].y, load) : g \in DOMAIN data.grip }

\* The calls of loadArenaFromJSON that added bodies so far; their bodies are
\* numbered -1, -2, ..., the bodies of buildTrack 1, 2, ...
Loads == Cardinality({ b.build : b \in { c \in world : c.build < 0 } })

\* loadArenaFromJSON(data, Matter, world)
LoadArenaFromJSON ==
  \E data \in Documents :
    /\ gen.stage = "idle"
    /\ Loads < MaxLoads
    /\ CHECKPOINTS' = IF Len(data.checkpoints) > 0 THEN LoadedCheckpoints(data)
                      ELSE CHECKPOINTS
    /\ world' = IF LoadList(data, 0) # {}
                THEN WorldAdd(world, LoadList(data, -(Loads + 1)))
                ELSE world
    /\ calls' = << >>
    /\ evt' = [op |-> "loadArenaFromJSON", now |-> clock, data |-> data]
    /\ UNCHANGED << race, sketch, frames, mathHypot, CURVED_BARRIERS, TURRETS, gen, turretData, turretState >>

Init == InitRace(1, << >>)
Next == CollisionStart \/ ResetRace \/ Tick
Spec == Init /\ [][Next]_vars

InitTwoPlayer == InitRace(2, << >>)
NextTwoPlayer == CollisionStart \/ ResetRace \/ Tick
SpecTwoPlayer == InitTwoPlayer /\ [][NextTwoPlayer]_vars

\* Two-player races with stray collisions among the regular ones.
InitStray == InitRace(2, << >>)
NextStray == CollisionStart \/ StrayCollisionStart
SpecStray == InitStray /\ [][NextStray]_vars

\* A single-player game that is restarted, at one clock reading.
InitRestart == InitRace(1, << >>)
NextRestart == CollisionStart \/ AttachRaceRules
SpecRestart == InitRestart /\ [][NextRestart]_vars

\* A single-player game whose arena is overridden from a document, at one
\* clock reading.
InitReload == InitRace(1, ModelTurrets)
NextReload == CollisionStart \/ LoadArenaFromJSON
SpecReload == InitReload /\ [][NextReload]_vars

InitTurret == InitRace(2, ModelTurrets)
NextTurret == UpdateTurrets \/ Tick
SpecTurret == InitTurret /\ [][NextTurret]_vars

\* The game of sketch.js after setup(): the track is built with the turrets
\* of ModelTurrets, the menu is shown, and no game was started yet.  Its
\* steps are the frames of draw(), the keys, the buttons and the timers of
\* the alerts.
LastTick == (MaxClock \div TickMs) * TickMs
InitSketch ==
  /\ InitTrack(0, ModelTurrets, 1)
  /\ callbacks = "sketch"
  /\ mathHypot \in [ExactOffsets(FramePositions, ModelTurrets) -> Ulps]
NextSketch ==
  \/ Draw
  \/ Tick
  \/ \E key \in Keys : KeyPressed(key)
  \/ \E button \in Buttons : Click(button)
  \/ \E ok \in BOOLEAN : AlertTimer(ok)
SpecSketch == InitSketch /\ [][NextSketch]_vars

\* The draw loop keeps running: the clock advances (up to the last reading
\* explored) and, while the game is playing, a frame is drawn at every
\* reading.  A game is started with one of the two buttons, paused and
\* resumed with key P, left with key M, and key G sets it playing.
LiveKeys == {"p", "m", "g"}
LiveButtons == {"btn-single", "btn-two-player"}
NextTurretLive ==
  \/ DrawLive
  \/ Tick
  \/ \E key \in LiveKeys : KeyPressed(key)
  \/ \E button \in LiveButtons : Click(button)
SpecTurretLive ==
  InitSketch /\ [][NextTurretLive]_vars /\ WF_vars(Tick) /\ WF_vars(DrawLive)

\* track.js is loaded and buildTrack is called, MaxBuilds times at most, on
\* one world.
InitBuild == InitRace(0, << >>)
NextBuild ==
  \/ BuildTrack
  \/ DrawObstacle
  \/ FinishObstacles
  \/ DrawCheckpoint
  \/ FinishCheckpoints
  \/ DrawTurret
  \/ FinishBuild
SpecBuild == InitBuild /\ [][NextBuild]_vars

\* A call of buildTrack that has started runs on: JavaScript runs it to its
\* return without interruption.
RunningBuild ==
  DrawObstacle \/ FinishObstacles \/ DrawCheckpoint \/ FinishCheckpoints
    \/ DrawTurret \/ FinishBuild
SpecBuildLive == InitBuild /\ [][NextBuild]_vars /\ WF_vars(RunningBuild)

\* buildTrack and loadArenaFromJSON on one world.
InitArena == InitRace(0, << >>)
NextArena ==
  \/ BuildTrack
  \/ DrawObstacle
  \/ FinishObstacles
  \/ DrawCheckpoint
  \/ FinishCheckpoints
  \/ DrawTurret
  \/ FinishBuild
  \/ LoadArenaFromJSON
SpecArena == InitArena /\ [][NextArena]_vars

(* ------------------------------ queries -------------------------------- *)
\* Variant: the penalty includes its end.
isPenalizedInclusive(index) == index \in DOMAIN penaltyUntil /\ clock <= penaltyUntil[index]

\* "performance.now() < penaltyUntil[index]"; a comparison with undefined is
\* false.
isPenalized(index) == index \in DOMAIN penaltyUntil /\ clock < penaltyUntil[index]

getLapInfo(index) ==
  [ lap |-> GetAt(lapState.lapCount, index),
    lastLap |-> GetAt(lapState.lastLap, index),
    bestLap |-> GetAt(lapState.bestLap, index),
    passedCheckpoint |-> GetAt(passedCheckpoint, index),
    nextCheckpointIndex |-> GetAt(nextCheckpointIndex, index),
    isPenalized |-> isPenalized(index) ]

\* Indexes a caller may pass: the attached cars, one before and one past them.
QueryIndexes == (-1) .. Len(carBodies)

\* A call of the query API returns; none of the three functions throws.
Returned(op, index, result) ==
  [op |-> op, index |-> index, now |-> clock, outcome |-> "returned", result |-> result]

\* getLapInfo(index) of the handle, called by the HUD
GetLapInfo ==
  \E index \in QueryIndexes :
    /\ evt' = Returned("getLapInfo", index, getLapInfo(index))
    /\ calls' = << >>
    /\ UNCHANGED << race, CHECKPOINTS, turretData, turretState >>
    /\ UNCHANGED << layout, attachments, sketch, attached, frames, mathHypot >>

\* isPenalized(index) of the handle
IsPenalized ==
  \E index \in QueryIndexes :
    /\ evt' = Returned("isPenalized", index, [value |-> isPenalized(index)])
    /\ calls' = << >>
    /\ UNCHANGED << race, CHECKPOINTS, turretData, turretState >>
    /\ UNCHANGED << layout, attachments, sketch, attached, frames, mathHypot >>

\* resetRace(index) of the handle, with whatever index the caller passes
ResetRaceAny == \E index \in QueryIndexes : resetRace(index)

\* One car is attached and the handle's functions are called as time passes.
InitQueries == InitRace(1, << >>)
NextQueries == GetLapInfo \/ IsPenalized \/ ResetRaceAny \/ Tick
SpecQueries == InitQueries /\ [][NextQueries]_vars

TypeOK ==
  /\ clock \in 0 .. MaxClock
  /\ \A i \in Cars : nextCheckpointIndex[i] \in 0 .. (Len(CHECKPOINTS) - 1)

(* ============================== claims ================================= *)
\* The step is a collisionStart event of the single pair (car i, body l).
SingleCollision(i, l) ==
  /\ evt'.op = "collisionStart"
  /\ evt'.n = 1
  /\ evt'.car = i
  /\ evt'.other = l

CallsOf(cs, cb, i) == { k \in DOMAIN cs : cs[k].cb = cb /\ cs[k].car = i }

\* All CarRaceState fields of car i.
CarState(i) ==
  [ passedCheckpoint |-> passedCheckpoint[i],
    nextCheckpointIndex |-> nextCheckpointIndex[i],
    startCooldownMs |-> startCooldownMs[i],
    penaltyUntil |-> penaltyUntil[i],
    lapCount |-> lapState.lapCount[i],
    lastLap |-> lapState.lastLap[i],
    bestLap |-> lapState.bestLap[i],
    lapStartMs |-> lapState.lapStartMs[i] ]

(* ---- C1 *)
\* C1: ordered-checkpoint gating.  A collision of car i with the sensor
\* CHECK_k advances the next-expected index n to (n+1) mod N and invokes
\* onCheckpoint(i, k) exactly once when k = n; when k # n it changes neither
\* the index nor the touched flag and invokes no onCheckpoint.
C1_OrderedCheckpointGating ==
  [][ \A i \in Cars : \A k \in 0 .. (Len(CHECKPOINTS) - 1) :
        SingleCollision(i, CheckLabel(k)) =>
          IF k = nextCheckpointIndex[i]
          THEN /\ nextCheckpointIndex'[i] = (k + 1) % Len(CHECKPOINTS)
               /\ calls' = << onCheckpoint(i, k) >>
          ELSE /\ nextCheckpointIndex'[i] = nextCheckpointIndex[i]
               /\ passedCheckpoint'[i] = passedCheckpoint[i]
               /\ CallsOf(calls', "onCheckpoint", i) = {}
    ]_vars

\* Checkpoint 0 was touched while checkpoint 1 was expected, and ignored.
C1_Witness ==
  /\ evt.op = "collisionStart"
  /\ evt.n = 1
  /\ evt.other = CheckLabel(0)
  /\ nextCheckpointIndex[evt.car] = 1
  /\ calls = << >>

(* ---- C2 *)
\* C2 as stated: once car i has touched 0,1,...,N-1 in order since its last
\* lap / attach / resetRace (whatever else it touched), its next start-line
\* collision outside the cooldown completes a lap.
C2_GrantedWhenEarned_Original ==
  [][ \A i \in Cars :
        ( /\ SingleCollision(i, StartLabel)
          /\ hist[i].orderPos = Len(CHECKPOINTS)
          /\ clock >= startCooldownMs[i] )
        => /\ lapState'.lapCount[i] = lapState.lapCount[i] + 1
           /\ CallsOf(calls', "onLap", i) # {}
    ]_vars

\* C2, amended: once car i has touched 0,1,...,N-1 in order since its last
\* lap / attach / resetRace and has not touched checkpoint 0 again after
\* that, its next start-line collision outside the cooldown completes a lap:
\* lapCount[i] increases by 1 and onLap is invoked.
C2_GrantedWhenEarned ==
  [][ \A i \in Cars :
        ( /\ SingleCollision(i, StartLabel)
          /\ hist[i].orderPos = Len(CHECKPOINTS)
          /\ ~hist[i].again0
          /\ clock >= startCooldownMs[i] )
        => /\ lapState'.lapCount[i] = lapState.lapCount[i] + 1
           /\ CallsOf(calls', "onLap", i) # {}
    ]_vars

\* A second lap was completed after the cooldown of the first.
C2_Witness ==
  /\ evt.op = "collisionStart"
  /\ evt.n = 1
  /\ evt.other = StartLabel
  /\ lapState.lapCount[0] = 2
  /\ CallsOf(calls, "onLap", 0) # {}

(* ---- C3 *)
\* C3: a lap is never granted unearned.  lapCount[i] changes or onLap(i, .)
\* fires only in a collisionStart event with the start line, by exactly one
\* lap, and only when the checkpoint touches of car i since its last lap /
\* attach / resetRace contain 0,1,...,N-1 as an ordered subsequence.
C3_NeverUnearned ==
  [][ \A i \in Cars :
        ( \/ lapState'.lapCount[i] > lapState.lapCount[i]
          \/ CallsOf(calls', "onLap", i) # {} )
        => /\ evt'.op = "collisionStart"
           /\ evt'.n = 1 => (evt'.car = i /\ evt'.other = StartLabel)
           /\ lapState'.lapCount[i] = lapState.lapCount[i] + 1
           /\ Cardinality(CallsOf(calls', "onLap", i)) = 1
           /\ ~hist'[i].unearned
    ]_vars

\* The start line was crossed outside the cooldown with checkpoint 0
\* touched and checkpoint 1 not: no lap.
C3_Witness ==
  /\ evt.op = "collisionStart"
  /\ evt.n = 1
  /\ evt.other = StartLabel
  /\ evt.now >= startCooldownMs[0]
  /\ passedCheckpoint[0]
  /\ nextCheckpointIndex[0] = 1
  /\ hist[0].orderPos = 1
  /\ lapState.lapCount[0] = 0
  /\ calls = << >>

(* ---- C4 *)
\* C4 as stated: each lap completion invokes onLap exactly once; after a
\* completion at T every start-line collision of the car before T + 1000 ms
\* is ignored entirely, and no onLap comes before T + 1000 ms.
C4_StartCooldown_Original ==
  [][ \A i \in Cars :
        /\ evt'.op = "collisionStart" =>
             Cardinality(CallsOf(calls', "onLap", i))
               = lapState'.lapCount[i] - lapState.lapCount[i]
        /\ (hist[i].doneAt # -1 /\ clock < hist[i].doneAt + StartCooldown) =>
             /\ CallsOf(calls', "onLap", i) = {}
             /\ SingleCollision(i, StartLabel) =>
                  (CarState(i)' = CarState(i) /\ calls' = << >>)
    ]_vars

\* C4, amended: each lap completion invokes onLap exactly once; after a
\* completion at T, until resetRace(i) is called, every start-line collision
\* of car i before T + 1000 ms is ignored entirely (no callback, no field of
\* the car changes) and no onLap(i, .) comes before T + 1000 ms.
C4_StartCooldown ==
  [][ \A i \in Cars :
        /\ evt'.op = "collisionStart" =>
             Cardinality(CallsOf(calls', "onLap", i))
               = lapState'.lapCount[i] - lapState.lapCount[i]
        /\ ( /\ hist[i].doneAt # -1
             /\ ~hist[i].doneReset
             /\ clock < hist[i].doneAt + StartCooldown ) =>
             /\ CallsOf(calls', "onLap", i) = {}
             /\ SingleCollision(i, StartLabel) =>
                  (CarState(i)' = CarState(i) /\ calls' = << >>)
    ]_vars

\* The start line was crossed again within the cooldown, after the whole
\* cycle had been touched again: ignored.
C4_Witness ==
  /\ evt.op = "collisionStart"
  /\ evt.n = 1
  /\ evt.other = StartLabel
  /\ hist[0].doneAt # -1
  /\ ~hist[0].doneReset
  /\ evt.now < hist[0].doneAt + StartCooldown
  /\ hist[0].orderPos = Len(CHECKPOINTS)
  /\ lapState.lapCount[0] = 1
  /\ calls = << >>

(* ---- C5 *)
\* C5: after any sequence of lap completions of car i since attach or its
\* last resetRace, bestLap[i] is the minimum of those lap times and
\* lastLap[i] is the most recent one.
C5_BestLapIsMinimum ==
  \A i \in Cars :
    hist[i].minLap # -1 =>
      /\ lapState.bestLap[i] = hist[i].minLap
      /\ lapState.lastLap[i] = hist[i].recentLap

(* ---- C6 *)
\* C6: when car i completes a lap at time now, lapCount[i] increases by 1,
\* lapTime = now - lapStartMs[i] is stored in lastLap[i] and passed to onLap,
\* lapStartMs[i] becomes now, startCooldownMs[i] becomes now + 1000 ms, and
\* the checkpoint progress is back at index 0 with nothing counted; now is
\* the one time of the completion.
C6_LapCompletionUpdate ==
  [][ \A i \in Cars :
        (SingleCollision(i, StartLabel) /\ CallsOf(calls', "onLap", i) # {}) =>
          \E now \in {evt'.now, clock'} :
            LET lapTime == now - lapState.lapStartMs[i]
            IN /\ lapState'.lapCount[i] = lapState.lapCount[i] + 1
               /\ lapState'.lastLap[i] = lapTime
               /\ calls' = << onLap(i, lapTime) >>
               /\ lapState'.lapStartMs[i] = now
               /\ startCooldownMs'[i] = now + StartCooldown
               /\ nextCheckpointIndex'[i] = 0
               /\ ~passedCheckpoint'[i]
    ]_vars

(* ---- C7 *)
\* C7 as stated: after a wall hit of car i at T, isPenalized(i) is true at
\* every time in [T, T + 1000 ms) and false at every time from T + 1000 ms.
C7_WallPenaltyWindow_Original ==
  [][ \A i \in Cars :
        hist[i].wallAt # -1 =>
          (isPenalized(i)' <=> clock' < hist[i].wallAt + WallPenalty)
    ]_vars

\* C7, amended: a collision of car i with a WALL body invokes onWallHit(i),
\* and isPenalized(i), like getLapInfo(i).isPenalized, is true exactly when
\* the most recent wall hit of car i since attach / resetRace(i) was at some
\* T with now < T + 1000 ms.
C7_WallPenaltyWindow ==
  [][ \A i \in Cars :
        /\ SingleCollision(i, WallLabel) => calls' = << onWallHit(i) >>
        /\ isPenalized(i)' <=>
             (hist'[i].wallAt # -1 /\ clock' < hist'[i].wallAt + WallPenalty)
        /\ getLapInfo(i)'.isPenalized = isPenalized(i)'
    ]_vars

\* The penalty of a wall hit has just run out.
C7_Witness ==
  /\ hist[0].wallAt # -1
  /\ clock = hist[0].wallAt + WallPenalty
  /\ ~isPenalized(0)
  /\ evt.op = "tick"

(* ---- C8 *)
\* C8: with two cars attached, a collision event of car i with a
\* checkpoint, the start line, a wall or a pad leaves every field of car
\* j # i unchanged and invokes no callback with index j.
C8_PerCarIsolation ==
  [][ \A i \in Cars : \A j \in Cars \ {i} :
        ( /\ evt'.op = "collisionStart"
          /\ evt'.n = 1
          /\ evt'.car = i
          /\ evt'.other.tag # "CAR" )
        => /\ CarState(j)' = CarState(j)
           /\ \A k \in DOMAIN calls' : calls'[k].car # j
    ]_vars

\* Car 0 completed a lap and hit a wall; car 1 has done nothing.
C8_Witness ==
  /\ Len(carBodies) = 2
  /\ evt.op = "collisionStart"
  /\ evt.n = 1
  /\ evt.car = 0
  /\ evt.other = WallLabel
  /\ lapState.lapCount[0] = 1
  /\ penaltyUntil[0] > clock
  /\ CarState(1) = [ passedCheckpoint |-> FALSE, nextCheckpointIndex |-> 0,
                     startCooldownMs |-> 0, penaltyUntil |-> 0, lapCount |-> 0,
                     lastLap |-> 0, bestLap |-> 0, lapStartMs |-> 0 ]

(* ---- C9 *)
\* C9: resetRace(i) sets car i's progress to index 0 with nothing counted,
\* its cooldown and penalty to 0, lapCount and lastLap to 0, bestLap to
\* unset (0) and lapStartMs to now, and leaves the other cars unchanged; in
\* the state it leaves, a start-line collision of car i completes no lap.
C9_ResetRace ==
  [][ \A i \in Cars :
        /\ (evt'.op = "resetRace" /\ evt'.index = i) =>
             /\ CarState(i)' =
                  [ passedCheckpoint |-> FALSE, nextCheckpointIndex |-> 0,
                    startCooldownMs |-> 0, penaltyUntil |-> 0, lapCount |-> 0,
                    lastLap |-> 0, bestLap |-> 0, lapStartMs |-> evt'.now ]
             /\ evt'.now = clock'
             /\ \A j \in Cars \ {i} : CarState(j)' = CarState(j)
        /\ ( /\ ~passedCheckpoint[i]
             /\ nextCheckpointIndex[i] = 0
             /\ SingleCollision(i, StartLabel) ) =>
             (CarState(i)' = CarState(i) /\ calls' = << >>)
    ]_vars

\* Car 0 was reset after a lap, a wall hit and a tick; car 1 keeps its
\* penalty.
C9_Witness ==
  /\ Len(carBodies) = 2
  /\ evt.op = "resetRace"
  /\ evt.index = 0
  /\ evt.now > 0
  /\ lapState.lapStartMs[0] = evt.now
  /\ lapState.lapCount[0] = 0
  /\ penaltyUntil[0] = 0
  /\ penaltyUntil[1] > 0
  /\ lapState.lapCount[1] = 1

(* ---- C10 *)
\* Distance of car c, at the positions of the most recent update, from the
\* center of turret t: the value of Math.hypot for the two.
DistanceAt(e, c, t) == DistanceTo(e.carPositions[c], [x |-> Tur(t).x, y |-> Tur(t).y])

\* C10: in an updateTurrets tick at time now in which turret t is not
\* spraying and was not triggered at the end of the previous tick, and some
\* car is within t's trigger radius (0 < distance < triggerRadius), the tick
\* ends with the turret spraying, sprayEndTime = now + 1000 ms, triggered,
\* and a burst of particles created.
C10_TurretSprayStart ==
  [][ \A t \in Turrets :
        ( /\ evt'.op = "updateTurrets"
          /\ ~turretState.activeSprays[t]
          /\ ~turretState.carsInTrigger[t]
          /\ \E c \in DOMAIN evt'.carPositions :
               /\ DistanceAt(evt', c, t) > 0
               /\ DistanceAt(evt', c, t) < Fine(Tur(t).triggerRadius) )
        => /\ turretState'.activeSprays[t]
           /\ turretState'.sprayEndTime[t] = evt'.now + SprayMs
           /\ turretState'.carsInTrigger[t]
           /\ turretState'.particles[t].n = ParticleCount
    ]_vars

\* A car came within the trigger radius of the first turret after the first
\* tick of the clock, and the turret sprays.
C10_Witness ==
  /\ evt.op = "updateTurrets"
  /\ evt.now > 0
  /\ \E c \in DOMAIN evt.carPositions :
       DistanceAt(evt, c, 0) > 0 /\ DistanceAt(evt, c, 0) < Fine(Tur(0).triggerRadius)
  /\ turretState.activeSprays[0]
  /\ turretState.sprayEndTime[0] = evt.now + SprayMs
  /\ turretState.particles[0].n = ParticleCount

(* ---- C11 *)
\* The applyForce calls of turret t on the car at place c of carPositions.
ForcesOn(cs, c, t) ==
  { k \in DOMAIN cs : cs[k].cb = "applyForce" /\ cs[k].car = c - 1 /\ cs[k].turret = t }

\* baseForce * max(minScale, 1 - d / forceRadius), in millionths.
ExpectedPush(d, forceRadius) ==
  Times(Max(Ratio(MinForceScale, 1000), One - Ratio(d, Fine(forceRadius))), BaseForce)
\* The magnitude of a force, in millionths, and equality of two magnitudes up
\* to the rounding of the two components.
Magnitude(f) == Norm(f.x, f.y)
Near(a, b) == Abs(a - b) <= 2

\* C11: in every updateTurrets tick in which turret t is spraying with
\* now < sprayEndTime (the tick that starts the spray included), every car
\* at distance d, 0 < d <= forceRadius, receives exactly one force from t, of
\* magnitude baseForce * max(minScale, 1 - d/forceRadius) > 0; in every other
\* tick and to every other car, t applies no force.
C11_TurretForceApplication ==
  [][ evt'.op = "updateTurrets" =>
        \A t \in Turrets : \A c \in DOMAIN evt'.carPositions :
          LET d == DistanceAt(evt', c, t)
              forces == ForcesOn(calls', c, t)
          IN IF /\ turretState'.activeSprays[t]
                /\ evt'.now < turretState'.sprayEndTime[t]
                /\ 0 < d
                /\ d <= Fine(Tur(t).range)
             THEN /\ Cardinality(forces) = 1
                  /\ \A k \in forces :
                       /\ Near(Magnitude(calls'[k]), ExpectedPush(d, Tur(t).range))
                       /\ Magnitude(calls'[k]) > 0
             ELSE forces = {}
    ]_vars

\* The first turret sprays; the car at the very edge of its force radius is
\* pushed with the minimum force, the car just outside is not.
C11_Witness ==
  /\ evt.op = "updateTurrets"
  /\ Len(evt.carPositions) = 2
  /\ DistanceAt(evt, 1, 0) = Fine(Tur(0).range)
  /\ DistanceAt(evt, 2, 0) = Fine(Tur(0).range + 1)
  /\ \E k \in ForcesOn(calls, 1, 0) :
       Near(Magnitude(calls[k]), (BaseForce * MinForceScale) \div 1000)
  /\ ForcesOn(calls, 2, 0) = {}

(* ---- C12 *)
\* C12: every force a turret applies to a car points outward: it is
\* parallel to (carPosition - turretCenter) and has a strictly positive dot
\* product with it.
C12_TurretForceOutward ==
  [][ evt'.op = "updateTurrets" =>
        \A k \in DOMAIN calls' :
          calls'[k].cb = "applyForce" =>
            LET f == calls'[k]
                rx == evt'.carPositions[f.car + 1].x - Tur(f.turret).x
                ry == evt'.carPositions[f.car + 1].y - Tur(f.turret).y
            IN /\ f.x * rx + f.y * ry > 0
               /\ Abs(f.x * ry - f.y * rx) <= Abs(rx) + Abs(ry)
    ]_vars

(* ---- C13 *)
\* An updateTurrets tick: a call of updateTurrets, or a frame of the game
\* that calls it.
TurretTick(e) == e.op = "updateTurrets" \/ (e.op = "draw" /\ e.updated)

\* C13: a spray ends without any condition on the cars.  In an
\* updateTurrets tick with now >= sprayEndTime a spraying turret stops
\* spraying, sets its glow to 0 and applies no force; sprayEndTime does not
\* change while the turret is spraying, and only such a tick ends a spray;
\* and, as long as the clock advances and updateTurrets ticks keep coming,
\* which they do in a game that stays playing from some frame on, every
\* spraying turret eventually stops spraying.  The clock explored ends at
\* LastTick: a spray that is to end later, and one that still runs when the
\* frames explored at LastTick are used up, are not followed further.
FramesUsedUp == clock = LastTick /\ frames = MaxFrames

C13_TurretSprayEnd ==
  /\ [][ \A t \in Turrets :
           /\ ( /\ TurretTick(evt')
                /\ turretState.activeSprays[t]
                /\ evt'.now >= turretState.sprayEndTime[t] )
              => /\ ~turretState'.activeSprays[t]
                 /\ turretState'.glowIntensity[t] = 0
                 /\ \A k \in DOMAIN calls' :
                      calls'[k].cb = "applyForce" => calls'[k].turret # t
           /\ (turretState.activeSprays[t] /\ turretState'.activeSprays[t])
              => turretState'.sprayEndTime[t] = turretState.sprayEndTime[t]
           /\ (turretState.activeSprays[t] /\ ~turretState'.activeSprays[t])
              => (TurretTick(evt') /\ evt'.now >= turretState.sprayEndTime[t])
       ]_vars
  /\ (<>[](gameState = "playing"))
     => \A t \in 0 .. (Len(ModelTurrets) - 1) :
          ( /\ t \in Turrets
            /\ turretState.activeSprays[t]
            /\ turretState.sprayEndTime[t] <= LastTick )
          ~> ((t \in Turrets /\ ~turretState.activeSprays[t]) \/ FramesUsedUp)

\* The spray of the first turret ended in the frame at its end time, with a
\* car still inside its trigger radius.
C13_Witness ==
  /\ evt.op = "draw"
  /\ evt.updated
  /\ evt.now > 0
  /\ evt.now = turretState.sprayEndTime[0]
  /\ ~turretState.activeSprays[0]
  /\ turretState.carsInTrigger[0]
  /\ turretState.glowIntensity[0] = 0
  /\ \A k \in DOMAIN calls : calls[k].cb = "applyForce" => calls[k].turret # 0

(* --------------------------- layout claims ----------------------------- *)
DrawOps == {"drawObstacle", "drawCheckpoint", "drawTurret"}

\* The set a stage leaves behind is the set it accepted, of exactly `count`
\* entries, or the set that was there before the stage.
AllOrNothing(before, after, acc, count) ==
  \/ after = before
  \/ after = acc /\ Len(after) = count

\* C14: every randomizer stage draws at most its attempt budget and then ends,
\* and the stage's set is afterwards either a fresh set of exactly the
\* configured count or the set in effect before, never a partial one; a call
\* of buildTrack that has started returns.
C14_BoundedAllOrNothing ==
  /\ [][ /\ gen'.attempts <= MaxAttempts
         /\ evt'.op \in DrawOps =>
              /\ gen.attempts < MaxAttempts
              /\ gen'.attempts = gen.attempts + 1
              /\ UNCHANGED << CURVED_BARRIERS, CHECKPOINTS, TURRETS >>
         /\ evt'.op = "finishObstacles" =>
              /\ AllOrNothing(CURVED_BARRIERS, CURVED_BARRIERS', gen.acc, MaxObstacles)
              /\ UNCHANGED << CHECKPOINTS, TURRETS >>
         /\ evt'.op = "finishCheckpoints" =>
              /\ AllOrNothing(CHECKPOINTS, CHECKPOINTS', gen.acc, MaxCheckpoints)
              /\ UNCHANGED << CURVED_BARRIERS, TURRETS >>
         /\ evt'.op = "finishBuild" =>
              /\ AllOrNothing(TURRETS, TURRETS', gen.acc, MaxTurrets)
              /\ UNCHANGED << CURVED_BARRIERS, CHECKPOINTS >> ]_vars
  /\ \A n \in 0 .. MaxBuilds :
       (gen.stage # "idle" /\ gen.builds = n) ~> (gen.stage = "idle" /\ gen.builds = n + 1)

\* The obstacle stage ran out of attempts with a partial set and the previous
\* obstacles stayed.
C14_Witness ==
  /\ evt.op = "finishObstacles"
  /\ evt.attempts = MaxAttempts
  /\ evt.got \in 1 .. (MaxObstacles - 1)
  /\ CURVED_BARRIERS = SubSeq(CURVED_BARRIERS_DEFAULT, 1, MaxObstacles)

\* The obstacles the obstacle stage has accepted so far, and the set it
\* installed when it ended with a full one.
AcceptedObstacles ==
  IF gen.stage = "obstacles" THEN gen.acc
  ELSE IF evt.op = "finishObstacles" /\ evt.got = MaxObstacles THEN CURVED_BARRIERS
  ELSE << >>

\* C15 (as stated): rectsOverlap(a, b) is false for every ordered pair of
\* distinct obstacles accepted in one build, in both argument orders.
C15_NoOverlap_Original ==
  \A i, j \in DOMAIN AcceptedObstacles :
    i # j => ~Overlaps(AcceptedObstacles[i], AcceptedObstacles[j])

\* C15: rectsOverlap(a, b) is false whenever a was accepted after b in the
\* same build, which is the argument order the generator tests.
C15_NoOverlap ==
  \A i, j \in DOMAIN AcceptedObstacles :
    i < j => ~Overlaps(AcceptedObstacles[j], AcceptedObstacles[i])

\* Two obstacles were accepted although the test, asked with the earlier one
\* first, reports an overlap.
C15_Witness ==
  /\ gen.stage = "obstacles"
  /\ \E i, j \in DOMAIN gen.acc :
       /\ i < j
       /\ Overlaps(gen.acc[i], gen.acc[j])
       /\ ~Overlaps(gen.acc[j], gen.acc[i])

\* The checkpoints the checkpoint stage has accepted so far, and the set it
\* installed when it ended with a full one.  CURVED_BARRIERS does not change
\* from the start of the stage to its end.
AcceptedCheckpoints ==
  IF gen.stage = "checkpoints" THEN gen.acc
  ELSE IF evt.op = "finishCheckpoints" /\ evt.got = MaxCheckpoints THEN CHECKPOINTS
  ELSE << >>

\* C16: in every set of checkpoints the randomizer accepts, every two centres
\* are at least checkpointMinSpacing apart, and circleRectOverlap of the
\* checkpoint, its radius inflated 1.2 times, with every obstacle in effect
\* during the checkpoint stage is false.
C16_CheckpointPlacement ==
  /\ \A i, j \in DOMAIN AcceptedCheckpoints :
       i # j => Hypot(AcceptedCheckpoints[i].x - AcceptedCheckpoints[j].x,
                      AcceptedCheckpoints[i].y - AcceptedCheckpoints[j].y)
                  >= Fine(RANDOMIZATION.checkpointMinSpacing)
  /\ \A i \in DOMAIN AcceptedCheckpoints : \A k \in DOMAIN CURVED_BARRIERS :
       ~circleRectOverlap(AcceptedCheckpoints[i].x, AcceptedCheckpoints[i].y,
                          (AcceptedCheckpoints[i].r * 12) \div 10,
                          CURVED_BARRIERS[k].x, CURVED_BARRIERS[k].y,
                          CURVED_BARRIERS[k].w, CURVED_BARRIERS[k].h,
                          CURVED_BARRIERS[k].a)

\* A full set of checkpoints was accepted among freshly generated obstacles
\* after at least one candidate was turned down.
C16_Witness ==
  /\ gen.stage = "checkpoints"
  /\ Len(gen.acc) = MaxCheckpoints
  /\ gen.attempts > Len(gen.acc)
  /\ CURVED_BARRIERS # SubSeq(CURVED_BARRIERS_DEFAULT, 1, MaxObstacles)

\* "TURRET_CONFIG.triggerRadius + 50": the spawn buffer of the snapshot of
\* randomizeTurrets_ that tests the start positions
SpawnBuffer == 50

\* The turrets the turret stage has accepted so far, and the list it installed
\* when it ended with a full one.  CHECKPOINTS does not change from the start
\* of the stage to its end.
AcceptedTurrets ==
  IF gen.stage = "turrets" THEN gen.acc
  ELSE IF evt.op = "finishBuild" /\ evt.got = MaxTurrets THEN TURRETS
  ELSE << >>

\* C17: every accepted turret is at least minSpacing from every other accepted
\* turret, at least 200 from every checkpoint centre, and at least
\* triggerRadius + buffer from every spawn point of START_POSITIONS.
C17_TurretClearance ==
  \A i \in DOMAIN AcceptedTurrets :
    /\ \A j \in DOMAIN AcceptedTurrets :
         i # j => Hypot(AcceptedTurrets[i].x - AcceptedTurrets[j].x,
                        AcceptedTurrets[i].y - AcceptedTurrets[j].y)
                    >= Fine(TURRET_CONFIG.minSpacing)
    /\ \A k \in DOMAIN CHECKPOINTS :
         Hypot(AcceptedTurrets[i].x - CHECKPOINTS[k].x,
               AcceptedTurrets[i].y - CHECKPOINTS[k].y) >= Fine(CheckpointClearance)
    /\ \A s \in DOMAIN START_POSITIONS :
         Hypot(AcceptedTurrets[i].x - START_POSITIONS[s].x,
               AcceptedTurrets[i].y - START_POSITIONS[s].y)
           >= Fine(AcceptedTurrets[i].triggerRadius + SpawnBuffer)

\* Bodies of the world that carry a label.
Labeled(label) == {b \in world : b.label = label}

\* C19: when buildTrack has returned, the world holds the bodies of that build
\* only: one sensor labeled CHECK_k for every checkpoint index k, one START
\* sensor, the obstacle and turret bodies of the lists in effect, and no body
\* of an earlier build.
C19_RebuildReplaces ==
  (gen.stage = "idle" /\ gen.builds >= 1) =>
    /\ world = AddList(gen.builds, CURVED_BARRIERS, CHECKPOINTS, TURRETS)
    /\ \A k \in 0 .. (Len(CHECKPOINTS) - 1) : Cardinality(Labeled(CheckLabel(k))) = 1
    /\ Cardinality(Labeled(StartLabel)) = 1
    /\ \A b \in world : b.build = gen.builds

\* C20: the arena buildTrack returns is complete whether or not a stage ran out
\* of attempts: the obstacle, checkpoint and turret lists have their
\* configured counts, and turretData, the turret bodies of the build and every
\* array of turretState have one entry per configured turret.
C20_NoMissingGeometry ==
  evt.op = "finishBuild" =>
    /\ Len(CURVED_BARRIERS) = MaxObstacles
    /\ Len(CHECKPOINTS) = MaxCheckpoints
    /\ Len(TURRETS) = MaxTurrets
    /\ Len(turretData) = MaxTurrets
    /\ Cardinality({b \in world : b.build = gen.builds /\ b.label.tag = "TURRET_"})
         = MaxTurrets
    /\ DOMAIN turretState.activeSprays = 0 .. (MaxTurrets - 1)
    /\ DOMAIN turretState.sprayEndTime = 0 .. (MaxTurrets - 1)

(* --------------------------- query claims ------------------------------ *)
QueryOps == {"getLapInfo", "isPenalized", "resetRace"}

\* C18: getLapInfo, isPenalized and resetRace called with an index that is not
\* an attached car fail with an IndexOutOfRange outcome, return nothing, and
\* leave the race state, array lengths included, as it was.
C18_OutOfRangeFails ==
  [][ (evt'.op \in QueryOps /\ evt'.index \notin Cars) =>
        /\ "outcome" \in DOMAIN evt'
        /\ evt'.outcome = "IndexOutOfRange"
        /\ "result" \notin DOMAIN evt'
        /\ UNCHANGED << passedCheckpoint, nextCheckpointIndex, startCooldownMs,
                        penaltyUntil, lapState >> ]_vars

(* --------------------------- turret claims, continued ------------------ *)
\* Some car of the tick is in the trigger radius of turret t, as
\* updateTurrets_ tests it: 0 < distance <= triggerRadius.
InTriggerRadius(e, t) ==
  \E c \in DOMAIN e.carPositions :
    DistanceAt(e, c, t) > 0 /\ DistanceAt(e, c, t) <= Fine(Tur(t).triggerRadius)

\* Turret t starts a spray in this step.
SprayStarted(t) ==
  /\ turretState'.activeSprays[t]
  /\ \/ ~turretState.activeSprays[t]
     \/ turretState'.sprayEndTime[t] # turretState.sprayEndTime[t]

\* C25: turret t starts a spray exactly in the ticks where some car is in its
\* trigger radius, none was at the end of the previous tick, and t is not
\* spraying; the triggered flag always becomes the trigger test of the tick.
\* So a car that stays inside, or enters during a spray, starts no spray until
\* a tick has found the radius empty and a car is inside again.  Nothing but
\* a tick of updateTurrets starts a spray.
C25_TurretEdgeTriggering ==
  [][ \A t \in Turrets :
        IF evt'.op = "updateTurrets"
        THEN /\ turretState'.carsInTrigger[t] = InTriggerRadius(evt', t)
             /\ SprayStarted(t) <=>
                  ( /\ InTriggerRadius(evt', t)
                    /\ ~turretState.carsInTrigger[t]
                    /\ ~turretState.activeSprays[t] )
        ELSE ~SprayStarted(t) /\ UNCHANGED turretState
    ]_vars

\* The spray of the first turret has ended with a car still inside its
\* trigger radius, and the turret does not spray again.
C25_Witness ==
  /\ evt.op = "updateTurrets"
  /\ InTriggerRadius(evt, 0)
  /\ turretState.carsInTrigger[0]
  /\ ~turretState.activeSprays[0]
  /\ turretState.sprayEndTime[0] > 0
  /\ evt.now > turretState.sprayEndTime[0]

(* ---- C26 *)
\* C26: the triggered flag of turret t after a tick is true iff some car is
\* at a distance d from the turret with 0 < d < triggerRadius; a car at
\* exactly triggerRadius, or at distance 0, does not trigger.
C26_TurretTriggerStrict ==
  [][ evt'.op = "updateTurrets" =>
        \A t \in Turrets :
          turretState'.carsInTrigger[t] =
            (\E c \in DOMAIN evt'.carPositions :
               DistanceAt(evt', c, t) > 0 /\ DistanceAt(evt', c, t) < Fine(Tur(t).triggerRadius))
    ]_vars

(* ---- C27 *)
\* The applyForce calls of a list as a set, with the car places exchanged.
ForceSet(cs) == { cs[k] : k \in DOMAIN cs }
ExchangedForceSet(cs) == { [cs[k] EXCEPT !.car = 1 - @] : k \in DOMAIN cs }

\* A position outside the trigger and force radius of every turret.
OutsideAll(p) ==
  \A t \in Turrets :
    LET d == DistanceTo(p, [x |-> Tur(t).x, y |-> Tur(t).y])
    IN d > Fine(Tur(t).range) /\ d > Fine(Tur(t).triggerRadius)

\* C27: a tick of updateTurrets with the two cars exchanged gives the same
\* turret state and the same force on each car; the force on a car is the
\* same function of its distance whether or not the car is in the trigger
\* radius; and with the second car outside every radius the tick gives the
\* turret state and the forces it gives with the first car alone.
C27_TurretCarOrderIndependent ==
  [][ (evt'.op = "updateTurrets" /\ Len(evt'.carPositions) = 2) =>
        \A cp \in {evt'.carPositions} :
          /\ \A exchanged \in {updateTurrets_(turretState, << cp[2], cp[1] >>, evt'.now)} :
                /\ exchanged.ts = turretState'
                /\ ExchangedForceSet(exchanged.calls) = ForceSet(calls')
          /\ \A k \in DOMAIN calls' :
                \A d \in {DistanceAt(evt', calls'[k].car + 1, calls'[k].turret)} :
                  Near(Magnitude(calls'[k]), ExpectedPush(d, Tur(calls'[k].turret).range))
          /\ OutsideAll(cp[2]) =>
                \A alone \in {updateTurrets_(turretState, << cp[1] >>, evt'.now)} :
                  /\ alone.ts = turretState'
                  /\ ForceSet(alone.calls) = ForceSet(calls')
    ]_vars

\* The second car triggered the first turret from inside its trigger radius;
\* the first car, outside the trigger radius but inside the force radius, is
\* pushed as well.
C27_Witness ==
  /\ evt.op = "updateTurrets"
  /\ Len(evt.carPositions) = 2
  /\ DistanceAt(evt, 1, 0) > Fine(Tur(0).triggerRadius)
  /\ DistanceAt(evt, 2, 0) > 0 /\ DistanceAt(evt, 2, 0) <= Fine(Tur(0).triggerRadius)
  /\ turretState.sprayEndTime[0] = evt.now + SprayMs
  /\ ForcesOn(calls, 1, 0) # {}
  /\ ForcesOn(calls, 2, 0) # {}

(* ---- C29 *)
\* C29: a collision of car i with a WALL body sets penaltyUntil[i] to
\* now + 1000 ms, invokes onWallHit(i) once and changes no other field of the
\* car's race state (next checkpoint index, touched flag, start cooldown,
\* lap count, lap start, last and best lap) nor any field of another car;
\* a collision with a checkpoint sensor or the start line leaves penaltyUntil
\* as it was.
C29_WallHitIsolated ==
  [][ \A i \in Cars :
        /\ SingleCollision(i, WallLabel) =>
             /\ CarState(i)' = [CarState(i) EXCEPT !.penaltyUntil = evt'.now + WallPenalty]
             /\ \A j \in Cars \ {i} : CarState(j)' = CarState(j)
             /\ calls' = << onWallHit(i) >>
        /\ \A l \in TrackLabels :
             (SingleCollision(i, l) /\ (l.tag = "CHECK_" \/ l = StartLabel)) =>
               penaltyUntil' = penaltyUntil
    ]_vars

\* A car halfway round the lap (a checkpoint touched, time on the lap clock)
\* has just hit a wall and kept its progress.
C29_Witness ==
  /\ evt.op = "collisionStart"
  /\ evt.n = 1
  /\ evt.other = WallLabel
  /\ passedCheckpoint[evt.car]
  /\ nextCheckpointIndex[evt.car] = 1
  /\ lapState.lapCount[evt.car] > 0
  /\ penaltyUntil[evt.car] = evt.now + WallPenalty
  /\ evt.now > 0

(* ---- C24 *)
\* C24: when buildTrack has returned, no checkpoint of CHECKPOINTS, its
\* radius inflated 1.2 times, overlaps (circleRectOverlap) any obstacle of
\* CURVED_BARRIERS, whichever stages installed a fresh set and whichever kept
\* the previous one.
C24_CrossStageConsistent ==
  (gen.stage = "idle" /\ gen.builds >= 1) =>
    \A i \in DOMAIN CHECKPOINTS : \A k \in DOMAIN CURVED_BARRIERS :
      ~circleRectOverlap(CHECKPOINTS[i].x, CHECKPOINTS[i].y,
                         (CHECKPOINTS[i].r * 12) \div 10,
                         CURVED_BARRIERS[k].x, CURVED_BARRIERS[k].y,
                         CURVED_BARRIERS[k].w, CURVED_BARRIERS[k].h,
                         CURVED_BARRIERS[k].a)

(* ---- C28 *)
\* C28: a collision pair that involves no attached car, a pair of two cars,
\* and a pair of a car with a body whose label is missing, is not a string,
\* or matches no known pattern (CHECK_ followed by a non-number or by an
\* index outside [0, N) included) changes no field of any car's race state,
\* invokes no callback, and the handler returns without an exception.
C28_UnrecognizedIgnored ==
  [][ evt'.op = "strayCollision" =>
        /\ UNCHANGED << passedCheckpoint, nextCheckpointIndex, startCooldownMs,
                        penaltyUntil, lapState >>
        /\ calls' = << >>
        /\ evt'.outcome = "returned"
    ]_vars

(* ---- C21 *)
\* C21: attachRaceRules called with an empty carBodies list ends with an
\* error and leaves the collisionStart handlers of the engine as they were;
\* it does not return a handle.
C21_EmptyAttachFailsFast ==
  [][ (evt'.op = "attachRaceRules" /\ carBodies' = << >>) =>
        /\ evt'.outcome = "Error"
        /\ evt'.handlers = Len(attachments) + 1
    ]_vars

(* ---- C22 *)
\* C22: however often attachRaceRules was called on the engine, a collision
\* of car i with a wall invokes onWallHit(i) exactly once, a collision with a
\* checkpoint sensor invokes onCheckpoint for i at most once, and a crossing
\* of the start line invokes onLap for i at most once.
C22_ExactlyOncePerCollision ==
  [][ \A i \in Cars :
        /\ SingleCollision(i, WallLabel) =>
             Cardinality(CallsOf(calls', "onWallHit", i)) = 1
        /\ \A k \in 0 .. (Len(CHECKPOINTS) - 1) :
             SingleCollision(i, CheckLabel(k)) =>
               Cardinality(CallsOf(calls', "onCheckpoint", i)) <= 1
        /\ SingleCollision(i, StartLabel) =>
             Cardinality(CallsOf(calls', "onLap", i)) <= 1
    ]_vars

(* ---- C23 *)
\* C23: in every reachable state the next-expected checkpoint index of every
\* car lies in [0, N), N the length of the checkpoint list in effect, also
\* after loadArenaFromJSON has replaced the list while race rules are attached.
C23_IndexInRange ==
  \A i \in Cars :
    nextCheckpointIndex[i] >= 0 /\ nextCheckpointIndex[i] < Len(CHECKPOINTS)

(* ---- C30 *)
\* The checkpoint sensors of a world.
Sensors(w) == { b \in w : b.label.tag = "CHECK_" }

\* C30: after loadArenaFromJSON with a non-empty checkpoints array the
\* checkpoint sensors of the world are exactly the supplied ones, one CHECK_k
\* at the place of entry k, and CHECKPOINTS is the supplied list; with no
\* checkpoints array the sensors and CHECKPOINTS are as before; and the
\* obstacle and turret lists are untouched.
C30_OverrideReplaces ==
  [][ evt'.op = "loadArenaFromJSON" =>
        LET cps == evt'.data.checkpoints
        IN /\ UNCHANGED << CURVED_BARRIERS, TURRETS >>
           /\ IF Len(cps) > 0
              THEN /\ CHECKPOINTS' = cps
                   /\ Cardinality(Sensors(world')) = Len(cps)
                   /\ \A k \in DOMAIN cps :
                        \E b \in Sensors(world') :
                          b.label = CheckLabel(k - 1) /\ b.x = cps[k].x /\ b.y = cps[k].y
              ELSE /\ CHECKPOINTS' = CHECKPOINTS
                   /\ Sensors(world') = Sensors(world)
    ]_vars

====
